---- MODULE Spec2Model ----
(***************************************************************************)
(* Verification model of gpxgridchallenge's storage and synchronisation    *)
(* core: the Strava sync engine and the per-user activity catalog          *)
(* (src/src/server/activity-storage.ts) and the keyed blob storage with    *)
(* its Local and Bucket drivers (src/src/server/storage.ts).               *)
(*                                                                         *)
(* Conventions.  JavaScript `undefined`/`null` is modelled by a sentinel   *)
(* of the field's own type: 0 for a token or an expiry (falsy in the      *)
(* code's `!state.accessToken` tests), NULL for a nonce, NaN for a number  *)
(* that is not finite.  One user is modelled: every file the code touches  *)
(* is per user.                                                            *)
(***************************************************************************)
EXTENDS Integers, Sequences, FiniteSets, TLC

VARIABLES
    now,          \* the clock, unix seconds (Date.now() / 1000)
    stravaState,  \* the user's StoredStravaState file (storage/strava/<user>.json)
    provider,     \* the provider: tokens issued so far, nonces generated so far
    upstream,     \* the provider's activity list of the athlete
    meta,         \* the user's activities.json: [exists, records]
    assets,       \* ids whose geometry asset file exists in the user's directory
    nextId,       \* number of record ids generated so far (randomUUID)
    last,         \* outcome of the last engine operation
    res,          \* outcome of the last catalog operation
    batches,      \* ids returned by the successful storeActivities calls, in call order
    fs,           \* Local driver: the files and directories under STORAGE_ROOT
    bucket,       \* Bucket driver: the objects of the bucket
    driver,       \* "local" or "bucket"
    io,           \* outcome of the last storage operation
    env,          \* process.env: the settings the program reads
    configured,   \* the module's flag: stravaApi.config has been called
    track,        \* the points last encoded, their string and what it decodes to
    calls,        \* the storeActivities calls that have read and not yet returned
    dashboard     \* the state of the dashboard component in the browser

vars == <<now, stravaState, provider, upstream, meta, assets, nextId, last,
          res, batches, fs, bucket, driver, io, env, configured, track, calls,
          dashboard>>

engineVars == <<now, stravaState, provider, upstream, last, configured>>
catalogVars == <<meta, assets, nextId, res, batches, track, calls>>
storageVars == <<fs, bucket, driver, io, env>>
uiVars == <<dashboard>>

(***************************************************************************)
(* Program constants                                                       *)
(***************************************************************************)
MAX_TRACKED_ACTIVITY_IDS == 500
TOKEN_EXPIRY_BUFFER_SECONDS == 60
PER_PAGE == 50
POINT_SCALE == 100000
POLYLINE_SCALE == 100000
MAX_SYNC_PAGES == 3

\* Keys of STRAVA_SPORT_MAP and the Sport each maps to.
STRAVA_SPORT_MAP ==
    [Run |-> "walking", TrailRun |-> "walking", Walk |-> "walking",
     Hike |-> "hiking", AlpineSki |-> "alpine-ski",
     BackcountrySki |-> "touring-ski", NordicSki |-> "nordic-ski",
     CrossCountrySki |-> "nordic-ski", SkateSki |-> "nordic-ski",
     GravelRide |-> "gravel-cycling", Ride |-> "road-cycling",
     VirtualRide |-> "road-cycling", EBikeRide |-> "road-cycling",
     E_BikeRide |-> "road-cycling", MountainBikeRide |-> "mountain-cycling",
     EMountainBikeRide |-> "mountain-cycling"]

(***************************************************************************)
(* Sentinels                                                               *)
(***************************************************************************)
NULL == "<null>"       \* a null or undefined string
NaN == -1              \* Number(x) of a value that is not a finite number

(***************************************************************************)
(* Bounds of the model                                                     *)
(***************************************************************************)
MaxIssued == 2         \* token triples the provider issues
MaxNonces == 2         \* nonces generated by buildAuthorizeUrl
MaxExtra == 2          \* record ids generated beyond one per upstream activity
MaxStored == 4         \* records generated in the catalog's specification
MaxUserIds == 3        \* ids generated before a user's last upload or import
MaxPoints == 2         \* points of an encoded track
MaxRaceIds == 2        \* record ids generated by overlapping calls

LongListLen == 151     \* activities of the long upstream list
HugeListLen == 501     \* activities of the longest upstream list

ClockValues == {0, 30}      \* the values the clock takes
Lifetimes == {30, 90, 300}  \* expires_at - now of an issued token
Nonces == <<"n1", "n2", "n3">>  \* what randomUUID() returns, call by call

Min(a, b) == IF a < b THEN a ELSE b
Range(s) == {s[i] : i \in 1..Len(s)}
Take(s, n) == SubSeq(s, 1, Min(n, Len(s)))

(***************************************************************************)
(* The provider's activities.  id is Number(activity.id); sport is         *)
(* sport_type; hasPolyline and points describe map.summary_polyline (is it *)
(* present, and how many points it decodes to); t is the start time the    *)
(* provider filters on; date tells how start_date reads on the client.     *)
(***************************************************************************)
Act(id, sport, hasPolyline, points, t, date) ==
    [id |-> id, sport |-> sport, hasPolyline |-> hasPolyline, points |-> points,
     t |-> t, date |-> date]

A1 == Act(1, "Ride", TRUE, 2, 20, "ok")
A2 == Act(2, "Yoga", TRUE, 2, 30, "ok")          \* sport not in the table
A3 == Act(3, "Run", TRUE, 1, 10, "ok")           \* geometry of one point
A4 == Act(NaN, "Hike", TRUE, 2, 40, "ok")        \* id is not a number
A5 == Act(5, "Walk", TRUE, 2, 5, "missing")      \* no start_date
A6 == Act(6, "Ride", TRUE, 3, 50, "bad")         \* start_date does not parse
A7 == Act(7, "Hike", FALSE, 0, 60, "ok")         \* no polyline
A8 == Act(NaN, "Walk", TRUE, 2, 70, "ok")        \* another id that is not a number

Bulk(i) == Act(1000 + i, "Ride", TRUE, 2, 1000 + i, "ok")

\* Upstream lists, ascending by start time.
ShortUpstreams == { <<A5, A3, A1, A6>> }
SmallUpstreams == { <<A3, A1, A2>>, <<A1, A4, A7>> }
LongUpstreams ==
    { [i \in 1..LongListLen |-> Bulk(i)], [i \in 1..HugeListLen |-> Bulk(i)] }

(***************************************************************************)
(* The activity catalog (activity-storage.ts)                              *)
(***************************************************************************)
\* An ActivityInput: gpxOk tells whether convertGpxToGeoJson accepts rawGpx.
Input(name, sport, fileName, gpxOk) ==
    [name |-> name, sport |-> sport, fileName |-> fileName, gpxOk |-> gpxOk]

\* convertGpxToGeoJson: throws on an empty or unparsable payload.
convertGpxToGeoJson(entry) == entry.gpxOk

\* What a metadata file can hold: a JSON array of records, a JSON document
\* that is not an array, text that is not JSON, or nothing the process may
\* read (readFile fails with an error other than ENOENT).
MetaContents == {"array", "document", "notJson", "unreadable"}

\* readRecords throws: readFile fails with something other than ENOENT, or
\* JSON.parse rejects the text.
readRecordsThrows(m) == m.exists /\ m.content \in {"notJson", "unreadable"}

\* readRecords when it returns: a missing metadata file (ENOENT) reads as the
\* empty catalog, and so does a parsed document that is not an array
\* (Array.isArray(parsed) ? parsed : []).
readRecords(m) ==
    IF m.exists /\ m.content = "array" THEN m.records ELSE <<>>

\* writeRecords: the whole array replaces the metadata file.
writeRecords(records) == [exists |-> TRUE, content |-> "array", records |-> records]

\* The record storeActivities builds for entries[i]; ids are generated in
\* the order of the entries, the asset is geojson/<id>.geojson.gz.
NewRecord(entry, id) ==
    [id |-> id, name |-> entry.name, sport |-> entry.sport,
     fileName |-> entry.fileName, geojsonPath |-> id]

\* The mutant of randomUUID: the id is generated once for the whole call.
randomUUID_perCall(nid, i) == nid + 1

\* randomUUID() of the i-th entry of a call, nid ids generated before the
\* call: an id that was never generated before.
randomUUID(nid, i) == nid + i

\* The mutant of storeActivities_allRecords: new records after the old ones.
storeActivities_allRecords_appended(newRecords, existing) == existing \o newRecords

\* allRecords = [...newRecords, ...existing]
storeActivities_allRecords(newRecords, existing) == newRecords \o existing

\* storeActivities(userId, entries) on metadata m, asset files as and nid ids
\* generated so far; writeFails: writeRecords throws.  The result holds the
\* files as they are left and what the call returns (ok = it did not throw).
storeActivities(m, as, nid, entries, writeFails) ==
    IF Len(entries) = 0
    THEN [ok |-> TRUE, meta |-> m, assets |-> as, nextId |-> nid, records |-> <<>>]
    ELSE
    IF readRecordsThrows(m)
    THEN [ok |-> FALSE, meta |-> m, assets |-> as, nextId |-> nid, records |-> <<>>]
    ELSE
      LET existing == readRecords(m)
          n == Len(entries)
          newRecords == [i \in 1..n |-> NewRecord(entries[i], randomUUID(nid, i))]
          converted == {i \in 1..n : convertGpxToGeoJson(entries[i])}
          \* every entry whose conversion succeeded writes its asset file,
          \* also when another entry's conversion rejected the batch
          written == as \cup {randomUUID(nid, i) : i \in converted}
      IN IF converted # 1..n \/ writeFails
         THEN [ok |-> FALSE, meta |-> m, assets |-> written, nextId |-> nid + n,
               records |-> <<>>]
         ELSE [ok |-> TRUE,
               meta |-> writeRecords(storeActivities_allRecords(newRecords, existing)),
               assets |-> written, nextId |-> nid + n, records |-> newRecords]

\* The ActivityDTO of a record: the record without its asset path.
ToDTO(record) ==
    [id |-> record.id, name |-> record.name, sport |-> record.sport,
     fileName |-> record.fileName]

\* getActivities(userId) on metadata m
getActivities(m) ==
    LET records == readRecords(m) IN [i \in 1..Len(records) |-> ToDTO(records[i])]

\* records.findIndex(record => record.id === activityId), counted from 1;
\* 0 stands for the -1 of no match.
FindIndex(records, activityId) ==
    IF \E i \in 1..Len(records) : records[i].id = activityId
    THEN CHOOSE i \in 1..Len(records) :
            /\ records[i].id = activityId
            /\ \A j \in 1..(i - 1) : records[j].id # activityId
    ELSE 0

\* The mutant of Splice: everything from index on is cut off.
Splice_tail(records, index) == SubSeq(records, 1, index - 1)

\* records.splice(index, 1): what is left of records.
Splice(records, index) ==
    SubSeq(records, 1, index - 1) \o SubSeq(records, index + 1, Len(records))

\* The batches of ids handed out so far, without id.
Forget(bs, id) ==
    [b \in 1..Len(bs) |-> SelectSeq(bs[b], LAMBDA e : e.id # id)]

\* A call storeActivities(userId, entries); writeFails: writeRecords throws.
StoreActivitiesCall(entries, writeFails) ==
    LET st == storeActivities(meta, assets, nextId, entries, writeFails) IN
    /\ nextId + Len(entries) <= MaxStored
    /\ writeFails => Len(entries) > 0 /\ ~readRecordsThrows(meta)
    /\ meta' = st.meta
    /\ assets' = st.assets
    /\ nextId' = st.nextId
    /\ res' = [op |-> "store", ok |-> st.ok,
               returned |-> [i \in 1..Len(st.records) |-> ToDTO(st.records[i])]]
    /\ batches' = IF st.ok /\ Len(entries) > 0
                  THEN Append(batches,
                              [i \in 1..Len(entries) |->
                                  [id |-> st.records[i].id, name |-> entries[i].name]])
                  ELSE batches
    /\ UNCHANGED <<track, calls>>
    /\ UNCHANGED engineVars
    /\ UNCHANGED storageVars
    /\ UNCHANGED uiVars

\* A call getActivities(userId).
GetActivitiesCall ==
    /\ res' = [op |-> "get", ok |-> ~readRecordsThrows(meta),
               returned |-> IF readRecordsThrows(meta) THEN <<>>
                            ELSE getActivities(meta)]
    /\ UNCHANGED <<meta, assets, nextId, batches, track, calls>>
    /\ UNCHANGED engineVars
    /\ UNCHANGED storageVars
    /\ UNCHANGED uiVars

\* A call deleteActivity(userId, activityId); fail: the step that throws, if
\* any ("writeRecords", or "unlink" with an error other than ENOENT).
deleteActivity(activityId, fail) ==
    LET records == readRecords(meta)
        index == FindIndex(records, activityId)
        out == [op |-> "delete", id |-> activityId, ok |-> TRUE,
                returned |-> FALSE, enoent |-> FALSE]
    IN
    /\ UNCHANGED <<nextId, track, calls>>
    /\ UNCHANGED engineVars
    /\ UNCHANGED storageVars
    /\ UNCHANGED uiVars
    /\ IF readRecordsThrows(meta)
       THEN /\ fail = "none"
            /\ res' = [out EXCEPT !.ok = FALSE]
            /\ UNCHANGED <<meta, assets, batches>>
       ELSE IF index = 0
       THEN /\ fail = "none"
            /\ res' = out
            /\ UNCHANGED <<meta, assets, batches>>
       ELSE IF fail = "writeRecords"
       THEN /\ res' = [out EXCEPT !.ok = FALSE]
            /\ UNCHANGED <<meta, assets, batches>>
       ELSE LET removed == records[index]
                assetPath == removed.geojsonPath
            IN /\ meta' = writeRecords(Splice(records, index))
               /\ batches' = Forget(batches, activityId)
               /\ IF assetPath \notin assets
                  THEN /\ fail = "none"
                       /\ assets' = assets
                       /\ res' = [out EXCEPT !.returned = TRUE, !.enoent = TRUE]
                  ELSE IF fail = "unlink"
                  THEN /\ assets' = assets
                       /\ res' = [out EXCEPT !.ok = FALSE]
                  ELSE /\ assets' = assets \ {assetPath}
                       /\ res' = [out EXCEPT !.returned = TRUE]

(***************************************************************************)
(* Calls of the catalog that overlap.  storeActivities and deleteActivity   *)
(* are async functions: between two of their awaits any other call of the   *)
(* process may run.  calls[c] is what call c holds in its local variables   *)
(* and where it stands.                                                     *)
(***************************************************************************)
Idle == [op |-> "none", step |-> "idle"]

\* The mutant of WriteBase: storeActivities reads the metadata file again
\* for its write.
WriteBase_readAgain(call, m) ==
    IF call.op = "store" THEN readRecords(m) ELSE call.records

\* The records a call puts its change on when it writes, m being the metadata
\* file at that time: the array it read at its start.
WriteBase(call, m) == IF call.op = "store" THEN call.existing ELSE call.records

\* storeActivities up to `existing = await readRecords(userId)`.
StoreRead(c, entries) ==
    /\ calls[c] = Idle
    /\ Len(entries) > 0
    /\ IF readRecordsThrows(meta)
       THEN /\ res' = [op |-> "store", ok |-> FALSE, returned |-> <<>>]
            /\ UNCHANGED calls
       ELSE /\ calls' = [calls EXCEPT ![c] =
                            [op |-> "store", step |-> "read", entries |-> entries,
                             existing |-> readRecords(meta), newRecords |-> <<>>]]
            /\ UNCHANGED res
    /\ UNCHANGED <<meta, assets, nextId, batches, track>>
    /\ UNCHANGED engineVars
    /\ UNCHANGED storageVars
    /\ UNCHANGED uiVars

\* The Promise.all of storeActivities: ids are generated and the asset files
\* written; an entry that does not convert makes the call throw.
StoreMap(c) ==
    LET call == calls[c]
        n == Len(call.entries)
        newRecords == [i \in 1..n |-> NewRecord(call.entries[i], randomUUID(nextId, i))]
        converted == {i \in 1..n : convertGpxToGeoJson(call.entries[i])}
    IN
    /\ call.op = "store" /\ call.step = "read"
    /\ nextId + n <= MaxRaceIds
    /\ nextId' = nextId + n
    /\ assets' = assets \cup {randomUUID(nextId, i) : i \in converted}
    /\ IF converted = 1..n
       THEN /\ calls' = [calls EXCEPT ![c].newRecords = newRecords, ![c].step = "mapped"]
            /\ UNCHANGED res
       ELSE /\ calls' = [calls EXCEPT ![c] = Idle]
            /\ res' = [op |-> "store", ok |-> FALSE, returned |-> <<>>]
    /\ UNCHANGED <<meta, batches, track>>
    /\ UNCHANGED engineVars
    /\ UNCHANGED storageVars
    /\ UNCHANGED uiVars

\* writeRecords(userId, allRecords) of storeActivities, and its return.
StoreWrite(c) ==
    LET call == calls[c]
        allRecords == storeActivities_allRecords(call.newRecords, WriteBase(call, meta))
    IN
    /\ call.op = "store" /\ call.step = "mapped"
    /\ meta' = writeRecords(allRecords)
    /\ calls' = [calls EXCEPT ![c] = Idle]
    /\ res' = [op |-> "store", ok |-> TRUE,
               returned |-> [i \in 1..Len(call.newRecords) |-> ToDTO(call.newRecords[i])]]
    /\ batches' = Append(batches,
                         [i \in 1..Len(call.newRecords) |->
                             [id |-> call.newRecords[i].id, name |-> call.entries[i].name]])
    /\ UNCHANGED <<assets, nextId, track>>
    /\ UNCHANGED engineVars
    /\ UNCHANGED storageVars
    /\ UNCHANGED uiVars

\* deleteActivity up to findIndex: without a match it returns false.
DeleteRead(c, activityId) ==
    LET records == readRecords(meta)
        index == FindIndex(records, activityId)
    IN
    /\ calls[c] = Idle
    /\ IF readRecordsThrows(meta)
       THEN /\ res' = [op |-> "delete", id |-> activityId, ok |-> FALSE,
                       returned |-> FALSE, enoent |-> FALSE]
            /\ UNCHANGED calls
       ELSE IF index = 0
       THEN /\ res' = [op |-> "delete", id |-> activityId, ok |-> TRUE,
                       returned |-> FALSE, enoent |-> FALSE]
            /\ UNCHANGED calls
       ELSE /\ calls' = [calls EXCEPT ![c] =
                            [op |-> "delete", step |-> "read", id |-> activityId,
                             records |-> records, index |-> index]]
            /\ UNCHANGED res
    /\ UNCHANGED <<meta, assets, nextId, batches, track>>
    /\ UNCHANGED engineVars
    /\ UNCHANGED storageVars
    /\ UNCHANGED uiVars

\* records.splice(index, 1) and writeRecords(userId, records) of deleteActivity.
DeleteWrite(c) ==
    LET call == calls[c] IN
    /\ call.op = "delete" /\ call.step = "read"
    /\ meta' = writeRecords(Splice(WriteBase(call, meta), call.index))
    /\ batches' = Forget(batches, call.id)
    /\ calls' = [calls EXCEPT ![c].step = "written"]
    /\ UNCHANGED <<assets, nextId, res, track>>
    /\ UNCHANGED engineVars
    /\ UNCHANGED storageVars
    /\ UNCHANGED uiVars

\* The unlink of the asset file and the return of deleteActivity.
DeleteUnlink(c) ==
    LET call == calls[c]
        assetPath == call.records[call.index].geojsonPath
    IN
    /\ call.op = "delete" /\ call.step = "written"
    /\ assets' = assets \ {assetPath}
    /\ res' = [op |-> "delete", id |-> call.id, ok |-> TRUE, returned |-> TRUE,
               enoent |-> assetPath \notin assets]
    /\ calls' = [calls EXCEPT ![c] = Idle]
    /\ UNCHANGED <<meta, nextId, batches, track>>
    /\ UNCHANGED engineVars
    /\ UNCHANGED storageVars
    /\ UNCHANGED uiVars

(***************************************************************************)
(* The polyline codec of the catalog.  A coordinate is given by what        *)
(* value * POINT_SCALE is: n + f/10, n an integer and f a digit, so that    *)
(* Coord(-1, 5) is -0.000005 degrees.  A decoded coordinate lat /           *)
(* POINT_SCALE is given by its integer lat; the sum of decoded deltas is a  *)
(* JavaScript number, which leaves 32 bits without wrapping, and is written *)
(* in two parts, hi * 2^30 + lo.  A string is the sequence of its char      *)
(* codes.  Bitwise operators work on 32-bit integers, and every difference  *)
(* of two coordinates of the model is one.                                  *)
(***************************************************************************)
Coord(n, f) == [n |-> n, f |-> f]

\* Math.round(value * POINT_SCALE): halves go up.
MathRound(value) == value.n + (IF value.f >= 5 THEN 1 ELSE 0)

TwoTo30 == 2 ^ 30

\* A number in two parts, and the sum of such a number and a 32-bit integer.
Num(x) == [hi |-> x \div TwoTo30, lo |-> x % TwoTo30]
Plus(a, x) ==
    LET lo == a.lo + (x % TwoTo30) IN
    [hi |-> a.hi + (x \div TwoTo30) + (lo \div TwoTo30), lo |-> lo % TwoTo30]

\* x << 1 on 32 bits: the bit shifted out is lost and bit 31 is the sign.
ShiftLeft1(x) ==
    IF x >= TwoTo30 THEN ((x - TwoTo30) * 2 - TwoTo30) - TwoTo30
    ELSE IF x < -TwoTo30 THEN ((x + TwoTo30) * 2 + TwoTo30) + TwoTo30
    ELSE x * 2

\* ~x
BitNot(x) == (0 - 1) - x

\* The mutant of ZigzagCode: a negative delta is shifted and not inverted.
ZigzagCode_shiftOnly(delta) == ShiftLeft1(delta)

\* delta < 0 ? ~(delta << 1) : delta << 1
ZigzagCode(delta) ==
    IF delta < 0 THEN BitNot(ShiftLeft1(delta)) ELSE ShiftLeft1(delta)

\* String.fromCharCode(code): the code is taken modulo 2^16.
FromCharCode(code) == code % 65536

\* encodeNumber(value): groups of five bits, the low ones first, each but the
\* last with the continuation flag 0x20, all offset by 63.
RECURSIVE encodeNumber(_)
encodeNumber(num) ==
    IF num >= 32
    THEN <<FromCharCode((32 + (num % 32)) + 63)>> \o encodeNumber(num \div 32)
    ELSE <<FromCharCode(num + 63)>>

\* The rounds i.. of the forEach of encodePoints.
RECURSIVE EncodeFrom(_, _, _, _)
EncodeFrom(points, i, prevLat, prevLng) ==
    IF i > Len(points) THEN <<>>
    ELSE LET latE5 == MathRound(points[i][1])
             lngE5 == MathRound(points[i][2])
             latCode == ZigzagCode(latE5 - prevLat)
             lngCode == ZigzagCode(lngE5 - prevLng)
         IN encodeNumber(latCode) \o encodeNumber(lngCode)
               \o EncodeFrom(points, i + 1, latE5, lngE5)

encodePoints(points) == EncodeFrom(points, 1, 0, 0)

\* The bits 0..4 that are set in a group of five bits.
GroupBits(group) == {b \in 0..4 : (group \div (2 ^ b)) % 2 = 1}

\* The 32-bit integer whose set bits are bits; bit 31 is the sign.
RECURSIVE BitsValue(_)
BitsValue(bits) ==
    IF bits = {} THEN 0
    ELSE CHOOSE value \in
            { IF b = 31 THEN (BitsValue(bits \ {b}) - TwoTo30) - TwoTo30
              ELSE 2 ^ b + BitsValue(bits \ {b})
              : b \in {c \in bits : \A d \in bits : d <= c} } : TRUE

\* The do-while of decodeValue from index on, bits being the bits of result
\* set so far: result |= (byte & 0x1f) << shift, the shift count taken modulo
\* 32 and bits shifted past bit 31 lost; charCodeAt past the end is NaN,
\* which reads as a group of 0 that ends the loop.
RECURSIVE DecodeLoop(_, _, _, _)
DecodeLoop(encoded, index, shift, bits) ==
    IF index > Len(encoded) THEN [bits |-> bits, nextIndex |-> index + 1]
    ELSE LET byte == encoded[index] - 63
             set == {b + (shift % 32) : b \in GroupBits(byte % 32)} \cap 0..31
         IN IF byte >= 32
            THEN DecodeLoop(encoded, index + 1, shift + 5, bits \cup set)
            ELSE [bits |-> bits \cup set, nextIndex |-> index + 1]

\* shouldNegate ? ~(result >> 1) : result >> 1, bits being the bits of result
DeltaOf(bits) ==
    LET half == BitsValue({b - 1 : b \in bits \ {0}}
                             \cup (IF 31 \in bits THEN {31} ELSE {}))
    IN IF 0 \in bits THEN BitNot(half) ELSE half

\* decodeValue(encoded, startIndex), indices counted from 1
decodeValue(encoded, startIndex) ==
    LET read == DecodeLoop(encoded, startIndex, 0, {})
    IN [delta |-> DeltaOf(read.bits), nextIndex |-> read.nextIndex]

\* The rounds of the while of decodePoints from index on.
RECURSIVE DecodeFrom(_, _, _, _)
DecodeFrom(encoded, index, lat, lng) ==
    IF index > Len(encoded) THEN <<>>
    ELSE LET first == decodeValue(encoded, index)
             second == decodeValue(encoded, first.nextIndex)
         IN <<<<Plus(lat, first.delta), Plus(lng, second.delta)>>>>
               \o DecodeFrom(encoded, second.nextIndex,
                             Plus(lat, first.delta), Plus(lng, second.delta))

decodePoints(encoded) == DecodeFrom(encoded, 1, Num(0), Num(0))

\* The mutant of DecodeRound: a read past the end of the string does not
\* move the index.
DecodeRound_stuck(encoded, index, shift, bits) ==
    IF index > Len(encoded)
    THEN [bits |-> bits, nextIndex |-> index, shift |-> shift + 5, more |-> FALSE]
    ELSE LET byte == encoded[index] - 63
             set == {b + (shift % 32) : b \in GroupBits(byte % 32)} \cap 0..31
         IN [bits |-> bits \cup set, nextIndex |-> index + 1, shift |-> shift + 5,
             more |-> byte >= 32]

\* One round of the do-while of decodeValue: byte = charCodeAt(index) - 63,
\* index += 1, result |= (byte & 0x1f) << shift, shift += 5; more is the
\* loop condition byte >= 0x20, which NaN (a read past the end) fails.
DecodeRound(encoded, index, shift, bits) ==
    IF index > Len(encoded)
    THEN [bits |-> bits, nextIndex |-> index + 1, shift |-> shift + 5, more |-> FALSE]
    ELSE LET byte == encoded[index] - 63
             set == {b + (shift % 32) : b \in GroupBits(byte % 32)} \cap 0..31
         IN [bits |-> bits \cup set, nextIndex |-> index + 1, shift |-> shift + 5,
             more |-> byte >= 32]

\* decodePoints round by round.  track holds its local variables: index, lat
\* and lng, the points pushed so far (decoded), which of the two decodeValue
\* calls of the while body is due (half), whether that call is inside its
\* do-while (inValue) and then its shift and the bits of its result.
\* What is due is a round of a do-while: the while condition holds and the
\* first call starts, the second call starts, or a call goes on.
DecodeByte ==
    /\ track.step = "decoding"
    /\ track.inValue \/ track.half = "lng" \/ track.index <= Len(track.encoded)
    /\ \E round \in {DecodeRound(track.encoded, track.index,
                                  IF track.inValue THEN track.shift ELSE 0,
                                  IF track.inValue THEN track.bits ELSE {})} :
       \E delta \in {DeltaOf(round.bits)} :
       track' =
          IF round.more
          THEN [track EXCEPT !.index = round.nextIndex, !.shift = round.shift,
                             !.bits = round.bits, !.inValue = TRUE]
          ELSE IF track.half = "lat"
          THEN [track EXCEPT !.index = round.nextIndex, !.shift = round.shift,
                             !.bits = round.bits, !.inValue = FALSE,
                             !.half = "lng", !.deltaLat = delta]
          ELSE [track EXCEPT !.index = round.nextIndex, !.shift = round.shift,
                             !.bits = round.bits, !.inValue = FALSE,
                             !.half = "lat",
                             !.lat = Plus(track.lat, track.deltaLat),
                             !.lng = Plus(track.lng, delta),
                             !.decoded = Append(@, <<Plus(track.lat, track.deltaLat),
                                                     Plus(track.lng, delta)>>)]
    /\ UNCHANGED <<meta, assets, nextId, res, batches, calls>>
    /\ UNCHANGED engineVars
    /\ UNCHANGED storageVars
    /\ UNCHANGED uiVars

\* The while condition index < encoded.length fails: decodePoints returns.
DecodeReturn ==
    /\ track.step = "decoding"
    /\ ~track.inValue /\ track.half = "lat"
    /\ track.index > Len(track.encoded)
    /\ track' = [track EXCEPT !.step = "decoded"]
    /\ UNCHANGED <<meta, assets, nextId, res, batches, calls>>
    /\ UNCHANGED engineVars
    /\ UNCHANGED storageVars
    /\ UNCHANGED uiVars

\* A do-while of decodePolyline from index on, bits being the bits of result
\* set so far.
RECURSIVE PolylineLoop(_, _, _, _)
PolylineLoop(encoded, index, shift, bits) ==
    IF index > Len(encoded) THEN [bits |-> bits, index |-> index + 1]
    ELSE LET byte == encoded[index] - 63
             result == bits \cup ({b + (shift % 32) : b \in GroupBits(byte % 32)}
                                    \cap 0..31)
         IN IF byte >= 32 THEN PolylineLoop(encoded, index + 1, shift + 5, result)
            ELSE [bits |-> result, index |-> index + 1]

\* The while loop of decodePolyline from index on: the latitude's do-while,
\* the longitude's, and the point pushed; (result & 1) ? ~(result >> 1) :
\* result >> 1 is each delta.  The points are in units of 1 / POLYLINE_SCALE.
RECURSIVE PolylineFrom(_, _, _, _)
PolylineFrom(encoded, index, lat, lng) ==
    IF index > Len(encoded) THEN <<>>
    ELSE LET Shifted(bits) == BitsValue({b - 1 : b \in bits \ {0}}
                                 \cup (IF 31 \in bits THEN {31} ELSE {}))
             Delta(bits) == IF 0 \in bits THEN BitNot(Shifted(bits))
                            ELSE Shifted(bits)
             first == PolylineLoop(encoded, index, 0, {})
             second == PolylineLoop(encoded, first.index, 0, {})
             nextLat == Plus(lat, Delta(first.bits))
             nextLng == Plus(lng, Delta(second.bits))
         IN <<<<nextLat, nextLng>>>>
               \o PolylineFrom(encoded, second.index, nextLat, nextLng)

\* The mutant of decodePolyline: the first character is skipped.
decodePolyline_fromSecond(encoded) == PolylineFrom(encoded, 2, Num(0), Num(0))

\* decodePolyline(encoded)
decodePolyline(encoded) == PolylineFrom(encoded, 1, Num(0), Num(0))

\* A number of decodePolyline, in units of 1 / POLYLINE_SCALE, as the
\* coordinate encodePoints multiplies by POINT_SCALE.
AsCoord(num) ==
    LET units == num.hi * TwoTo30 + num.lo IN
    IF POINT_SCALE = POLYLINE_SCALE THEN Coord(units, 0)
    ELSE Coord((units * POINT_SCALE) \div POLYLINE_SCALE,
               (((units * POINT_SCALE) % POLYLINE_SCALE) * 10) \div POLYLINE_SCALE)

\* toActivityInput decodes the provider's polyline into the points of the
\* entry it hands to storeActivities.
ImportTrack ==
    /\ track.step = "fetched"
    /\ track' = [track EXCEPT
                    !.points = [i \in 1..Len(decodePolyline(track.polyline)) |->
                                  <<AsCoord(decodePolyline(track.polyline)[i][1]),
                                    AsCoord(decodePolyline(track.polyline)[i][2])>>],
                    !.step = "given"]
    /\ UNCHANGED <<meta, assets, nextId, res, batches, calls>>
    /\ UNCHANGED engineVars
    /\ UNCHANGED storageVars
    /\ UNCHANGED uiVars

\* storeActivities encodes the points of an entry into its record.
EncodeTrack ==
    /\ track.step = "given"
    /\ track' = [track EXCEPT !.encoded = encodePoints(track.points),
                              !.step = "encoded"]
    /\ UNCHANGED <<meta, assets, nextId, res, batches, calls>>
    /\ UNCHANGED engineVars
    /\ UNCHANGED storageVars
    /\ UNCHANGED uiVars

\* getActivities (or the return of storeActivities) decodes them.
DecodeTrack ==
    /\ track.step = "encoded"
    /\ track' = [track EXCEPT !.decoded = decodePoints(track.encoded),
                              !.step = "decoded"]
    /\ UNCHANGED <<meta, assets, nextId, res, batches, calls>>
    /\ UNCHANGED engineVars
    /\ UNCHANGED storageVars
    /\ UNCHANGED uiVars

\* Something other than this program removes an asset file of the user.
RemoveAssetFile ==
    /\ \E id \in assets : assets' = assets \ {id}
    /\ res' = [op |-> "env", ok |-> TRUE]
    /\ UNCHANGED <<meta, nextId, batches, track, calls>>
    /\ UNCHANGED engineVars
    /\ UNCHANGED storageVars
    /\ UNCHANGED uiVars

(***************************************************************************)
(* The keyed blob storage (storage.ts).  A key is the sequence of the       *)
(* pieces its string splits into at "/": "a/b" is <<"a", "b">>, "/a" is     *)
(* <<"", "a">>, "a//b" is <<"a", "", "b">>.  A path of the file system is   *)
(* the sequence of its names from "/".  fs maps each existing path to "dir" *)
(* or to the content of the file; bucket maps each object key to its        *)
(* content.                                                                 *)
(***************************************************************************)
\* process.env.  A variable that is not set is NULL; one set to nothing is "".
Env(storageDriver, name, keyId, awsKeyId, secret, awsSecret) ==
    [STORAGE_DRIVER |-> storageDriver,
     STORAGE_BUCKET_NAME |-> name,
     STORAGE_BUCKET_ACCESS_KEY_ID |-> keyId, AWS_ACCESS_KEY_ID |-> awsKeyId,
     STORAGE_BUCKET_SECRET_ACCESS_KEY |-> secret, AWS_SECRET_ACCESS_KEY |-> awsSecret,
     STORAGE_BUCKET_PREFIX |-> NULL,
     STORAGE_BUCKET_REGION |-> NULL, AWS_REGION |-> NULL,
     STORAGE_BUCKET_ENDPOINT |-> NULL,
     STORAGE_BUCKET_SESSION_TOKEN |-> NULL, AWS_SESSION_TOKEN |-> NULL,
     STORAGE_BUCKET_FORCE_PATH_STYLE |-> NULL,
     STRAVA_CLIENT_ID |-> "id", STRAVA_CLIENT_SECRET |-> "secret",
     STRAVA_REDIRECT_URI |-> "uri"]

\* Nothing of the storage is set; and a bucket with its credentials is set.
LocalEnv == Env(NULL, NULL, NULL, NULL, NULL, NULL)
BucketEnv == Env(NULL, "bucket", "key", NULL, "secret", NULL)

\* String.prototype.toLowerCase on the values the model sets.
ToLowerCase(value) ==
    CASE value \in {"LOCAL", "Local"} -> "local"
      [] value \in {"BUCKET", "Bucket"} -> "bucket"
      [] OTHER -> value

\* The mutant of Truthy: a variable set to nothing counts as set.
Truthy_defined(value) == value # NULL

\* JavaScript's truthiness of a string that may be undefined.
Truthy(value) == value \notin {NULL, ""}

\* a ?? b
Coalesce(a, b) == IF a # NULL THEN a ELSE b

\* The constants storage.ts computes from process.env when it is loaded.
driverEnv(e) ==
    IF e.STORAGE_DRIVER = NULL THEN NULL ELSE ToLowerCase(e.STORAGE_DRIVER)
bucketName(e) == e.STORAGE_BUCKET_NAME
bucketAccessKeyId(e) == Coalesce(e.STORAGE_BUCKET_ACCESS_KEY_ID, e.AWS_ACCESS_KEY_ID)
bucketSecretAccessKey(e) ==
    Coalesce(e.STORAGE_BUCKET_SECRET_ACCESS_KEY, e.AWS_SECRET_ACCESS_KEY)
inferredDriver(e) ==
    IF Truthy(bucketName(e)) /\ Truthy(bucketAccessKeyId(e))
          /\ Truthy(bucketSecretAccessKey(e))
    THEN "bucket" ELSE "local"

\* The mutant of useBucketDriver: a bucket that is set up wins over STORAGE_DRIVER.
useBucketDriver_inferredFirst(e) ==
    driverEnv(e) = "bucket" \/ inferredDriver(e) = "bucket"

useBucketDriver(e) ==
    driverEnv(e) = "bucket" \/ (~Truthy(driverEnv(e)) /\ inferredDriver(e) = "bucket")

\* path.join(process.cwd(), "storage"), the process running in /srv
STORAGE_ROOT == <<"srv", "storage">>

\* The pieces of a STORAGE_BUCKET_PREFIX the model sets, split at "/" as a
\* key is.
PrefixPieces ==
    ("p" :> <<"p">>) @@ ("/p/" :> <<"", "p", "">>) @@ ("/" :> <<"", "">>)
       @@ ("p/.." :> <<"p", "..">>) @@ ("p q" :> <<"p q">>)

\* value.replace(/^\/+|\/+$/g, ""): the slashes at both ends are dropped.
RECURSIVE StripSlashes(_)
StripSlashes(pieces) ==
    IF Len(pieces) > 1 /\ pieces[1] = "" THEN StripSlashes(Tail(pieces))
    ELSE IF Len(pieces) > 1 /\ pieces[Len(pieces)] = ""
    THEN StripSlashes(SubSeq(pieces, 1, Len(pieces) - 1))
    ELSE pieces

\* STORAGE_BUCKET_PREFIX with its outer slashes removed; <<>> without one.
bucketPrefix ==
    IF ~Truthy(env.STORAGE_BUCKET_PREFIX) THEN <<>>
    ELSE LET stripped == StripSlashes(PrefixPieces[env.STORAGE_BUCKET_PREFIX])
         IN IF stripped = <<"">> THEN <<>> ELSE stripped

\* key.replace(/^\/+/, ""): the slashes in front are dropped.
RECURSIVE normalizeKey(_)
normalizeKey(key) ==
    IF Len(key) > 1 /\ key[1] = "" THEN normalizeKey(Tail(key)) ELSE key

\* normalizeKey(key).split("/").filter(Boolean)
splitKeySegments(key) == SelectSeq(normalizeKey(key), LAMBDA piece : piece # "")

\* path.join(base, ...segments): "." is passed over and ".." goes one name up.
RECURSIVE PathJoin(_, _)
PathJoin(base, segments) ==
    IF Len(segments) = 0 THEN base
    ELSE LET piece == Head(segments) IN
         PathJoin(CASE piece = "." -> base
                    [] piece = ".." -> SubSeq(base, 1, Len(base) - 1)
                    [] OTHER -> Append(base, piece),
                  Tail(segments))

toLocalPath(key) == PathJoin(STORAGE_ROOT, splitKeySegments(key))

\* path.posix.dirname of the normalized key ("" for "."): what stands before
\* the slash in front of the last name.
getParentKey(key) ==
    LET normalized == normalizeKey(key)
        named == {i \in 1..Len(normalized) : normalized[i] # ""}
        base == IF named = {} THEN 0 ELSE CHOOSE i \in named : \A j \in named : j <= i
    IN IF base <= 1 THEN <<"">> ELSE SubSeq(normalized, 1, base - 1)

\* path.isAbsolute(relativePath): the string starts with "/".
IsAbsolute(key) == Len(key) > 1 /\ key[1] = ""

\* encodeURIComponent with !'()* escaped as well: a space becomes %20.
encodeRfc3986(value) ==
    CASE value = "a b" -> "a%20b"
      [] value = "a!" -> "a%21"
      [] value = "a%" -> "a%25"
      [] OTHER -> value

\* buildEncodedKey(key) joined by "/": the encoded segments.
buildEncodedKey(key) ==
    LET segments == splitKeySegments(key) IN
    [i \in 1..Len(segments) |-> encodeRfc3986(segments[i])]

\* buildBucketKey: the object key a request addresses.
buildBucketKey(key) ==
    LET normalized == normalizeKey(key)
        withPrefix == IF bucketPrefix # <<>> THEN bucketPrefix \o normalized ELSE normalized
    IN buildEncodedKey(withPrefix)

\* What the file system holds at path.
Kind(f, path) ==
    IF path = <<>> THEN "dir"
    ELSE IF path \notin DOMAIN f THEN "none"
    ELSE IF f[path] = "dir" THEN "dir" ELSE "file"

\* The error of walking to path: a name on the way is missing or is a file.
WalkError(f, path) ==
    LET bad == {i \in 1..(Len(path) - 1) : Kind(f, SubSeq(path, 1, i)) # "dir"} IN
    IF bad = {} THEN ""
    ELSE LET i == CHOOSE i \in bad : \A j \in bad : i <= j IN
         IF Kind(f, SubSeq(path, 1, i)) = "none" THEN "ENOENT" ELSE "ENOTDIR"

\* readFile(path)
ReadFile(f, path) ==
    LET err == IF WalkError(f, path) # "" THEN WalkError(f, path)
               ELSE CASE Kind(f, path) = "none" -> "ENOENT"
                      [] Kind(f, path) = "dir" -> "EISDIR"
                      [] OTHER -> ""
    IN [err |-> err, content |-> IF err = "" THEN f[path] ELSE NULL, path |-> path]

\* The mutant of WriteFile: a file that exists keeps its content.
WriteFile_once(f, path, content) ==
    LET err == IF WalkError(f, path) # "" THEN WalkError(f, path)
               ELSE IF Kind(f, path) = "dir" THEN "EISDIR" ELSE ""
    IN [err |-> err, path |-> path,
        fs |-> IF err = "" /\ Kind(f, path) = "none" THEN (path :> content) @@ f ELSE f]

\* writeFile(path, content): the file is created or replaced.
WriteFile(f, path, content) ==
    LET err == IF WalkError(f, path) # "" THEN WalkError(f, path)
               ELSE IF Kind(f, path) = "dir" THEN "EISDIR" ELSE ""
    IN [err |-> err, path |-> path,
        fs |-> IF err = "" THEN (path :> content) @@ f ELSE f]

\* mkdir(path, {recursive: true}): every missing directory down to path is
\* made; a file in the way is an error.
Mkdir(f, path) ==
    LET files == {i \in 1..Len(path) : Kind(f, SubSeq(path, 1, i)) = "file"}
        made == {SubSeq(path, 1, i) : i \in 1..Len(path)} \ DOMAIN f
    IN IF files # {}
       THEN [err |-> IF Len(path) \in files /\ Cardinality(files) = 1
                     THEN "EEXIST" ELSE "ENOTDIR",
             fs |-> f]
       ELSE [err |-> "", fs |-> [q \in made |-> "dir"] @@ f]

\* unlink(path); unlinking a directory fails (EISDIR, EPERM on some systems).
Unlink(f, path) ==
    LET err == IF WalkError(f, path) # "" THEN WalkError(f, path)
               ELSE CASE Kind(f, path) = "none" -> "ENOENT"
                      [] Kind(f, path) = "dir" -> "EISDIR"
                      [] OTHER -> ""
    IN [err |-> err, path |-> path,
        fs |-> IF err = "" THEN [q \in DOMAIN f \ {path} |-> f[q]] ELSE f]

\* ensureStorageDir(relativeDir) of the Local driver
ensureStorageDir(f, relativeDir) ==
    IF relativeDir = <<"">> THEN [err |-> "", fs |-> f]
    ELSE Mkdir(f, toLocalPath(relativeDir))

(***************************************************************************)
(* The signed request of the Bucket driver.  A text is the sequence of its  *)
(* pieces ("/" always a piece of its own), concatenation being \o; a        *)
(* digest is the text of the term that names it: sha256 and HMAC-SHA256 of  *)
(* node:crypto are taken as functions that never collide.                   *)
(***************************************************************************)
RECURSIVE Join(_, _)
Join(parts, separator) ==
    IF Len(parts) = 0 THEN <<>>
    ELSE IF Len(parts) = 1 THEN parts[1]
    ELSE parts[1] \o separator \o Join(Tail(parts), separator)

\* createHash("sha256").update(value).digest("hex")
sha256(value) == <<"sha256hex(">> \o value \o <<")">>

\* createHmac("sha256", key).update(value).digest(), and .digest("hex")
Hmac(key, value) == <<"hmac(">> \o key \o <<",">> \o value \o <<")">>
HmacHex(key, value) == <<"hex(">> \o Hmac(key, value) \o <<")">>

bucketRegion(e) == Coalesce(e.STORAGE_BUCKET_REGION, Coalesce(e.AWS_REGION, "us-east-1"))
bucketEndpoint(e) == e.STORAGE_BUCKET_ENDPOINT
bucketSessionToken(e) ==
    Coalesce(e.STORAGE_BUCKET_SESSION_TOKEN, e.AWS_SESSION_TOKEN)
usePathStyle(e) ==
    IF Truthy(e.STORAGE_BUCKET_FORCE_PATH_STYLE)
    THEN e.STORAGE_BUCKET_FORCE_PATH_STYLE = "true"
    ELSE Truthy(bucketEndpoint(e))

\* new URL(endpoint) of the endpoints the model sets.
ParsedEndpoints ==
    ("https://minio.local:9000" :> [hostname |-> <<"minio.local">>, port |-> "9000"])
       @@ ("https://storage.example" :> [hostname |-> <<"storage.example">>, port |-> ""])

\* endpointUrl
endpointUrl(e) ==
    IF Truthy(bucketEndpoint(e)) THEN ParsedEndpoints[bucketEndpoint(e)]
    ELSE [hostname |-> <<"s3.", bucketRegion(e), ".amazonaws.com">>, port |-> ""]

\* url.host
UrlHost(url) == url.hostname \o (IF url.port = "" THEN <<>> ELSE <<":", url.port>>)

\* What the setter of url.pathname keeps of the segments of a path: "." is
\* dropped and ".." takes the segment before it away; at the end of the path
\* either leaves an empty segment.
RECURSIVE RemoveDotSegments(_, _)
RemoveDotSegments(kept, segments) ==
    IF Len(segments) = 0 THEN kept
    ELSE LET segment == Head(segments)
             isLast == Len(segments) = 1
             shorter == IF Len(kept) = 0 THEN kept ELSE SubSeq(kept, 1, Len(kept) - 1)
         IN CASE segment = ".." ->
                   RemoveDotSegments(IF isLast THEN Append(shorter, "") ELSE shorter,
                                     Tail(segments))
              [] segment = "." ->
                   RemoveDotSegments(IF isLast THEN Append(kept, "") ELSE kept,
                                     Tail(segments))
              [] OTHER -> RemoveDotSegments(Append(kept, segment), Tail(segments))

\* The text of a path: "/" in front of each segment.
PathText(segments) ==
    IF Len(segments) = 0 THEN <<"/">>
    ELSE Join([i \in 1..Len(segments) |-> <<"/", segments[i]>>], <<>>)

\* formatAmzDate(new Date()) at the second t of the clock, and its first 8
\* characters.
AmzDates ==
    (0 :> [date |-> "19700101", time |-> "000000"])
       @@ (30 :> [date |-> "19700101", time |-> "000030"])
formatAmzDate(t) == <<AmzDates[t].date, "T", AmzDates[t].time, "Z">>
DateStamp(amzDate) == <<amzDate[1]>>

\* The mutant of getSigningKey: region and service are chained the other way.
getSigningKey_serviceFirst(e, dateStamp) ==
    LET kDate == Hmac(<<"AWS4", bucketSecretAccessKey(e)>>, dateStamp)
        kService == Hmac(kDate, <<"s3">>)
        kRegion == Hmac(kService, <<bucketRegion(e)>>)
    IN Hmac(kRegion, <<"aws4_request">>)

\* getSigningKey(dateStamp)
getSigningKey(e, dateStamp) ==
    LET kDate == Hmac(<<"AWS4", bucketSecretAccessKey(e)>>, dateStamp)
        kRegion == Hmac(kDate, <<bucketRegion(e)>>)
        kService == Hmac(kRegion, <<"s3">>)
    IN Hmac(kService, <<"aws4_request">>)

\* value.trim(), and the value a Headers object keeps of one set on it
\* (white space at both ends is stripped).
Trim(value) == IF value = " text/plain " THEN "text/plain" ELSE value
HeadersSet(value) == Trim(value)

\* Object.keys(signingHeaders).sort() for the names that are signed.
HeaderOrder ==
    <<"content-type", "host", "x-amz-content-sha256", "x-amz-date",
      "x-amz-security-token">>
SortNames(names) == SelectSeq(HeaderOrder, LAMBDA name : name \in names)

\* sendBucketRequest from the signature on (lines 135-158): the request
\* handed to fetch, and what was signed for it.
RequestSigned(e, method, url, signingHeaders, sortedHeaderNames, signedHeaders, canonicalUri, canonicalRequest, amzDate, credentialScope) ==
    LET stringToSign ==
            Join(<< <<"AWS4-HMAC-SHA256">>, amzDate, credentialScope,
                    sha256(canonicalRequest) >>, <<"\n">>)
        signingKey == getSigningKey(e, DateStamp(amzDate))
        signature == HmacHex(signingKey, stringToSign)
        authorization ==
            <<"AWS4-HMAC-SHA256 Credential=", bucketAccessKeyId(e), "/">>
               \o credentialScope \o <<", SignedHeaders=">> \o signedHeaders
               \o <<", Signature=">> \o signature
        requestHeaders ==
            [name \in (DOMAIN signingHeaders \ {"host"}) \cup {"authorization"} |->
                IF name = "authorization" THEN authorization
                ELSE [i \in 1..Len(signingHeaders[name]) |->
                        HeadersSet(signingHeaders[name][i])]]
    IN [method |-> method, url |-> url, headers |-> requestHeaders,
        signedNames |-> sortedHeaderNames,
        signedValues |-> [name \in DOMAIN signingHeaders |->
                            [i \in 1..Len(signingHeaders[name]) |->
                                Trim(signingHeaders[name][i])]],
        canonicalUri |-> canonicalUri, authorization |-> authorization]

\* sendBucketRequest from the sorted header names on (lines 116-133).
RequestCanonical(e, method, url, path, amzDate, payloadHash, signingHeaders, sortedHeaderNames) ==
    LET canonicalHeaders ==
            Join([i \in 1..Len(sortedHeaderNames) |->
                    <<sortedHeaderNames[i], ":">>
                       \o [j \in 1..Len(signingHeaders[sortedHeaderNames[i]]) |->
                             Trim(signingHeaders[sortedHeaderNames[i]][j])]],
                 <<"\n">>)
        signedHeaders ==
            Join([i \in 1..Len(sortedHeaderNames) |-> <<sortedHeaderNames[i]>>], <<";">>)
        canonicalUri == PathText(path)
    IN RequestSigned(e, method, url, signingHeaders, sortedHeaderNames, signedHeaders,
                     canonicalUri,
                     Join(<< <<method>>, canonicalUri, <<>>, canonicalHeaders \o <<"\n">>,
                             signedHeaders, payloadHash >>, <<"\n">>),
                     amzDate,
                     DateStamp(amzDate)
                        \o <<"/", bucketRegion(e), "/", "s3", "/", "aws4_request">>)

\* sendBucketRequest from the signing headers on (lines 107-133).
RequestHeaders(e, method, url, path, amzDate, payloadHash, contentType) ==
    LET signingHeaders ==
            [name \in {"host", "x-amz-date", "x-amz-content-sha256"}
                         \cup (IF Truthy(bucketSessionToken(e))
                               THEN {"x-amz-security-token"} ELSE {})
                         \cup (IF Truthy(contentType) THEN {"content-type"} ELSE {})
               |-> CASE name = "host" -> UrlHost(url)
                     [] name = "x-amz-date" -> amzDate
                     [] name = "x-amz-content-sha256" -> payloadHash
                     [] name = "x-amz-security-token" -> <<bucketSessionToken(e)>>
                     [] OTHER -> <<contentType>>]
    IN RequestCanonical(e, method, url, path, amzDate, payloadHash, signingHeaders,
                        SortNames(DOMAIN signingHeaders))

\* The path that is signed for an object key: /bucket/key in path style, /key
\* in virtual-hosted style.
RequestPath(e, encodedKey) ==
    IF usePathStyle(e) THEN <<bucketName(e)>> \o encodedKey ELSE encodedKey

\* The URL of the request: the endpoint, with the bucket in front of its host
\* name in virtual-hosted style, and with its pathname set to the path.
RequestUrl(e, endpoint, path) ==
    [hostname |-> IF usePathStyle(e) THEN endpoint.hostname
                  ELSE <<bucketName(e), ".">> \o endpoint.hostname,
     port |-> endpoint.port,
     pathname |-> PathText(RemoveDotSegments(<<>>, path))]

\* sendBucketRequest from the URL on (lines 96-158) at the second t of the
\* clock: the request handed to fetch, and what was signed for it.
BucketRequest(e, t, method, key, body, contentType) ==
    RequestHeaders(e, method,
                   RequestUrl(e, endpointUrl(e), RequestPath(e, buildBucketKey(key))),
                   RequestPath(e, buildBucketKey(key)),
                   formatAmzDate(t),
                   sha256(IF body = NULL THEN <<>> ELSE <<body>>),
                   contentType)

\* What the bucket's endpoint does with a request.  "serve": what S3 does
\* (200 with the object or 404 for GET, 200 for PUT, 204 for DELETE);
\* "created" and "edge299": it does the same and answers 201, 299; the others:
\* it does nothing and answers the status with an error document.
AnswerStatus ==
    [created |-> 201, edge299 |-> 299, multiple |-> 300, forbidden |-> 403,
     notFound |-> 404, refuse |-> 500]
AnswerBody ==
    [multiple |-> "MultipleChoices", forbidden |-> "AccessDenied",
     notFound |-> "NoSuchBucket", refuse |-> "InternalError"]
Serving == {"serve", "created", "edge299"}

\* The response of the endpoint that does what S3 does.
Served(bk, method, object, body) ==
    CASE method = "GET" ->
           IF object \in DOMAIN bk
           THEN [status |-> 200, body |-> bk[object], bucket |-> bk]
           ELSE [status |-> 404, body |-> "NoSuchKey", bucket |-> bk]
      [] method = "PUT" ->
           [status |-> 200, body |-> "", bucket |-> (object :> body) @@ bk]
      [] OTHER ->
           [status |-> 204, body |-> "",
            bucket |-> [o \in DOMAIN bk \ {object} |-> bk[o]]]

\* A call that threw before fetch: no request was sent.
NotSent(thrown, bk) ==
    [thrown |-> thrown, sent |-> FALSE, status |-> 0, body |-> NULL, bucket |-> bk]

\* sendBucketRequest: the checks of the settings, then the response of the
\* bucket's endpoint to the signed request (BucketRequest); an endpoint that
\* serves answers 403 when the path it is asked for is not the path signed.
sendBucketRequest(bk, method, key, body, answer) ==
    LET object == buildBucketKey(key)
        served == Served(bk, method, object, body)
        path == RequestPath(env, object)
        sent == [thrown |-> "", sent |-> TRUE]
    IN
    IF ~Truthy(bucketName(env)) THEN NotSent("MissingBucketName", bk)
    ELSE IF ~Truthy(bucketAccessKeyId(env)) \/ ~Truthy(bucketSecretAccessKey(env))
    THEN NotSent("MissingCredentials", bk)
    ELSE IF driver # "bucket" THEN NotSent("EndpointNotConfigured", bk)
    ELSE IF answer \in Serving /\ RemoveDotSegments(<<>>, path) # path
    THEN sent @@ [status |-> 403, body |-> "SignatureDoesNotMatch", bucket |-> bk]
    ELSE IF answer = "serve" THEN sent @@ served
    ELSE IF answer \in Serving /\ served.status # 404
    THEN sent @@ [served EXCEPT !.status = AnswerStatus[answer]]
    ELSE IF answer \in Serving THEN sent @@ served
    ELSE sent @@ [status |-> AnswerStatus[answer], body |-> AnswerBody[answer],
                  bucket |-> bk]

\* The mutant of Ok: a redirection counts as success.
Ok_below400(response) == response.status >= 200 /\ response.status <= 399

\* response.ok
Ok(response) == response.status >= 200 /\ response.status <= 299

\* What a call of the Bucket driver ends with: the error thrown ("" for none),
\* the status and the text its message carries, and the response it got.
BucketResult(err, status, text, response) ==
    [err |-> err, status |-> status, text |-> text,
     response |-> [sent |-> response.sent, status |-> response.status,
                   body |-> response.body]]

\* bucketRead
bucketRead(bk, key, answer) ==
    LET response == sendBucketRequest(bk, "GET", key, NULL, answer) IN
    IF response.thrown # ""
    THEN [content |-> NULL] @@ BucketResult(response.thrown, 0, NULL, response)
    ELSE IF response.status = 404
    THEN [content |-> NULL] @@ BucketResult("ENOENT", 0, NULL, response)
    ELSE IF ~Ok(response)
    THEN [content |-> NULL]
            @@ BucketResult("BucketReadFailed", response.status, response.body, response)
    ELSE [content |-> response.body] @@ BucketResult("", 0, NULL, response)

\* bucketWrite
bucketWrite(bk, key, content, contentType, answer) ==
    LET response == sendBucketRequest(bk, "PUT", key, content, answer) IN
    IF response.thrown # ""
    THEN [bucket |-> bk] @@ BucketResult(response.thrown, 0, NULL, response)
    ELSE IF ~Ok(response)
    THEN [bucket |-> bk]
            @@ BucketResult("BucketWriteFailed", response.status, response.body, response)
    ELSE [bucket |-> response.bucket] @@ BucketResult("", 0, NULL, response)

\* bucketDelete
bucketDelete(bk, key, answer) ==
    LET response == sendBucketRequest(bk, "DELETE", key, NULL, answer) IN
    IF response.thrown # ""
    THEN [bucket |-> bk] @@ BucketResult(response.thrown, 0, NULL, response)
    ELSE IF ~Ok(response) /\ response.status # 404
    THEN [bucket |-> bk]
            @@ BucketResult("BucketDeleteFailed", response.status, response.body, response)
    ELSE [bucket |-> response.bucket] @@ BucketResult("", 0, NULL, response)

\* readStorageFile(relativePath) with driver d: the error thrown ("" for
\* none) and the content returned.
readStorageFile(d, f, bk, relativePath, answer) ==
    IF d = "local" THEN ReadFile(f, toLocalPath(relativePath))
    ELSE bucketRead(bk, relativePath, answer)

\* writeStorageFile(relativePath, content) with driver d: the error thrown
\* and what the file system and the bucket hold afterwards.
writeStorageFile(d, f, bk, relativePath, content, contentType, answer) ==
    IF d = "local"
    THEN LET dir == getParentKey(relativePath)
             ensured == ensureStorageDir(f, dir)
         IN IF ensured.err # ""
            THEN [err |-> ensured.err, fs |-> f, bucket |-> bk,
                  path |-> toLocalPath(dir)]
            ELSE LET written == WriteFile(ensured.fs, toLocalPath(relativePath), content)
                 IN [err |-> written.err, fs |-> written.fs, bucket |-> bk,
                     path |-> written.path]
    ELSE [fs |-> f] @@ bucketWrite(bk, relativePath, content, contentType, answer)

\* deleteStorageFile(relativePath) with driver d; the Local driver unlinks
\* an absolute relativePath as it stands, and swallows ENOENT.
deleteStorageFile(d, f, bk, relativePath, answer) ==
    IF d = "local"
    THEN LET normalized == normalizeKey(relativePath)
             unlinked == IF IsAbsolute(relativePath)
                         THEN Unlink(f, PathJoin(<<>>, SelectSeq(relativePath,
                                                           LAMBDA piece : piece # "")))
                         ELSE Unlink(f, toLocalPath(normalized))
         IN [err |-> IF unlinked.err = "ENOENT" THEN "" ELSE unlinked.err,
             fs |-> unlinked.fs, bucket |-> bk, path |-> unlinked.path]
    ELSE [fs |-> f] @@ bucketDelete(bk, relativePath, answer)

\* What else a storage operation r leaves behind for the properties to read:
\* the path the Local driver went to; the status and the text in the message
\* of the error the Bucket driver threw, and the response it got.
Detail(r) ==
    [path |-> IF "path" \in DOMAIN r THEN r.path ELSE <<>>,
     status |-> IF "status" \in DOMAIN r THEN r.status ELSE 0,
     text |-> IF "text" \in DOMAIN r THEN r.text ELSE NULL,
     response |-> IF "response" \in DOMAIN r THEN r.response
                  ELSE [sent |-> FALSE, status |-> 0, body |-> NULL]]

\* The request that fetch was handed in the storage operation r, if one was.
NoRequest == [method |-> NULL]
SentRequest(r, method, key, body, contentType) ==
    [request |-> IF "response" \in DOMAIN r /\ r.response.sent
                 THEN BucketRequest(env, now, method, key, body, contentType)
                 ELSE NoRequest]

\* What a storage operation leaves behind for the properties to read; before
\* is what a read of the key returned when the operation began.
IoOutcome(op, key, answer, err, content) ==
    [op |-> op, key |-> key, answer |-> answer, ok |-> err = "", err |-> err,
     content |-> content,
     before |-> readStorageFile(driver, fs, bucket, key, "serve").content]

\* A call readStorageFile(key).
ReadStorageFileCall(key, answer) ==
    LET r == readStorageFile(driver, fs, bucket, key, answer) IN
    /\ driver = "local" => answer = "serve"
    /\ io' = Detail(r) @@ SentRequest(r, "GET", key, NULL, NULL)
                @@ IoOutcome("read", key, answer, r.err, r.content)
    /\ UNCHANGED <<fs, bucket, driver, env>>
    /\ UNCHANGED engineVars
    /\ UNCHANGED uiVars
    /\ UNCHANGED catalogVars

\* A call writeStorageFile(key, content, {contentType}); contentType is NULL
\* in a call without options.
WriteStorageFileCall(key, content, contentType, answer) ==
    LET w == writeStorageFile(driver, fs, bucket, key, content, contentType, answer) IN
    /\ driver = "local" => answer = "serve"
    /\ fs' = w.fs
    /\ bucket' = w.bucket
    /\ io' = Detail(w) @@ SentRequest(w, "PUT", key, content, contentType)
                @@ IoOutcome("write", key, answer, w.err, content)
    /\ UNCHANGED <<driver, env>>
    /\ UNCHANGED engineVars
    /\ UNCHANGED uiVars
    /\ UNCHANGED catalogVars

\* A call deleteStorageFile(key).
DeleteStorageFileCall(key, answer) ==
    LET d == deleteStorageFile(driver, fs, bucket, key, answer) IN
    /\ driver = "local" => answer = "serve"
    /\ fs' = d.fs
    /\ bucket' = d.bucket
    /\ io' = Detail(d) @@ SentRequest(d, "DELETE", key, NULL, NULL)
                @@ IoOutcome("delete", key, answer, d.err, NULL)
    /\ UNCHANGED <<driver, env>>
    /\ UNCHANGED engineVars
    /\ UNCHANGED uiVars
    /\ UNCHANGED catalogVars

(***************************************************************************)
(* The sync engine (second half of activity-storage.ts)                    *)
(***************************************************************************)
\* An empty StoredStravaState: readState of a missing file returns {}.
EmptyState ==
    [accessToken |-> 0, refreshToken |-> 0, expiresAt |-> 0, athlete |-> NULL,
     importedActivityIds |-> <<>>, lastActivityCursor |-> 0,
     lastSyncSummary |-> [attemptedAt |-> -1, imported |-> 0, considered |-> 0],
     pendingAuthState |-> NULL]

\* resolveSport: the Sport of sport_type, NULL when the table has none.
resolveSport(activity) ==
    IF activity.sport \in DOMAIN STRAVA_SPORT_MAP
    THEN STRAVA_SPORT_MAP[activity.sport] ELSE NULL

\* buildActivityInput: NULL (as the sport of the result) when the activity
\* is skipped, else the ActivityInput; the synthesized GPX always converts.
buildActivityInput(activity) ==
    LET sport == resolveSport(activity) IN
    IF sport = NULL \/ ~activity.hasPolyline \/ activity.points < 2
    THEN Input(NULL, NULL, NULL, FALSE)
    ELSE Input(<<"Strava", activity.id>>, sport, <<"strava", activity.id>>, TRUE)

\* What listActivities({after, page, per_page}) answers: the provider lists
\* ascending by start time; honor tells whether it applies `after`.
ListActivities(after, page, honor) ==
    LET all == IF honor THEN SelectSeq(upstream, LAMBDA a : a.t > after) ELSE upstream
    IN SubSeq(all, (page - 1) * PER_PAGE + 1, Min(page * PER_PAGE, Len(all)))

\* fetchRecentActivities: pages 1..MAX_SYNC_PAGES, stopping after an empty or
\* a short page.
RECURSIVE FetchPages(_, _, _)
FetchPages(after, page, honor) ==
    IF page > MAX_SYNC_PAGES THEN <<>>
    ELSE LET pageResults == ListActivities(after, page, honor) IN
         IF Len(pageResults) = 0 THEN <<>>
         ELSE IF Len(pageResults) < PER_PAGE THEN pageResults
         ELSE pageResults \o FetchPages(after, page + 1, honor)

fetchRecentActivities(after, honor) == FetchPages(after, 1, honor)

\* The mutant of StopsAfter: only an empty page ends the loop.
StopsAfter_emptyOnly(pageResults) == Len(pageResults) = 0

\* The two breaks of the loop of fetchRecentActivities: the page is empty, or
\* shorter than PER_PAGE.
StopsAfter(pageResults) == Len(pageResults) = 0 \/ Len(pageResults) < PER_PAGE

\* The calls client.athlete.listActivities({after, per_page, page}) that one
\* fetchRecentActivities makes, in order, each with the length of its answer.
RECURSIVE PageRequests(_, _, _)
PageRequests(after, page, honor) ==
    IF page > MAX_SYNC_PAGES THEN <<>>
    ELSE LET pageResults == ListActivities(after, page, honor)
             request == [after |-> after, per_page |-> PER_PAGE, page |-> page,
                         answered |-> Len(pageResults)]
         IN IF StopsAfter(pageResults) THEN <<request>>
            ELSE <<request>> \o PageRequests(after, page + 1, honor)

\* Math.floor(new Date(start_date).getTime() / 1000), 0 without start_date.
StartDate(activity) ==
    CASE activity.date = "ok" -> activity.t
      [] activity.date = "missing" -> 0
      [] OTHER -> NaN

\* The mutant of AdvanceCursor: the cursor follows the last start time read.
AdvanceCursor_last(newestCursor, startDate) ==
    IF startDate # NaN THEN startDate ELSE newestCursor

\* if (startDate > newestCursor) newestCursor = startDate; NaN compares false.
AdvanceCursor(newestCursor, startDate) ==
    IF startDate # NaN /\ startDate > newestCursor THEN startDate ELSE newestCursor

\* The mutant of ScanStep: the ids of the call are not added to seenIds.
ScanStep_unseen(acc, activity) ==
    LET numericId == activity.id
        parsed == buildActivityInput(activity)
        kept == IF parsed.sport # NULL
                THEN [acc EXCEPT !.inputs = Append(@, parsed),
                                 !.newImportedIds =
                                     IF numericId # NaN THEN Append(@, numericId) ELSE @]
                ELSE acc
    IN [kept EXCEPT !.newestCursor = AdvanceCursor(@, StartDate(activity))]

\* One round of the forEach of syncStravaActivities for an activity whose id
\* is not in seenIds: the activity is kept if it has an input, and its start
\* time moves the cursor either way.
ScanStep(acc, activity) ==
    LET numericId == activity.id
        parsed == buildActivityInput(activity)
        kept == IF parsed.sport # NULL
                THEN [acc EXCEPT !.inputs = Append(@, parsed),
                                 !.newImportedIds =
                                     IF numericId # NaN THEN Append(@, numericId) ELSE @,
                                 !.seenIds = @ \cup {numericId}]
                ELSE acc
    IN [kept EXCEPT !.newestCursor = AdvanceCursor(@, StartDate(activity))]

\* The rounds i..hi of the forEach, in their order; an activity whose id is
\* in seenIds is passed over before anything else is done with it.  The
\* range is gone through half by half (the rounds of the first half, then
\* those of the second on what the first left), and `seen` is what the rounds
\* before i left, worked out once.
RECURSIVE ScanRange(_, _, _, _)
ScanRange(activities, i, hi, acc) ==
    IF i > hi THEN acc
    ELSE CHOOSE result \in
            { IF i = hi
              THEN IF activities[i].id \in seen.seenIds THEN seen
                   ELSE ScanStep(seen, activities[i])
              ELSE ScanRange(activities, (i + hi) \div 2 + 1, hi,
                             ScanRange(activities, i, (i + hi) \div 2, seen))
              : seen \in {acc} } : TRUE

\* The forEach over everything fetched, evaluated page by page.
RECURSIVE ScanPages(_, _, _)
ScanPages(activities, page, acc) ==
    IF page = 0 THEN acc
    ELSE ScanRange(activities, (page - 1) * PER_PAGE + 1,
                   Min(page * PER_PAGE, Len(activities)),
                   ScanPages(activities, page - 1, acc))

Scan(activities, acc) == ScanPages(activities, MAX_SYNC_PAGES, acc)

\* The mutant of OrderedIds: the ids already tracked stay in front.
OrderedIds_oldFirst(newImportedIds, importedActivityIds) ==
    Take(SelectSeq(importedActivityIds \o newImportedIds, LAMBDA id : id # NaN),
         MAX_TRACKED_ACTIVITY_IDS)

\* The mutant of OrderedIds: the ids of this call are not tracked.
OrderedIds_forgetful(newImportedIds, importedActivityIds) ==
    Take(SelectSeq(importedActivityIds, LAMBDA id : id # NaN),
         MAX_TRACKED_ACTIVITY_IDS)

\* orderedIds = [...newImportedIds, ...ids].filter(isFinite).slice(0, MAX)
OrderedIds(newImportedIds, importedActivityIds) ==
    Take(SelectSeq(newImportedIds \o importedActivityIds, LAMBDA id : id # NaN),
         MAX_TRACKED_ACTIVITY_IDS)

\* The mutant of NeedsRefresh: a token at the edge of the buffer is reused.
NeedsRefresh_strict(expiresAt, t) == expiresAt < t + TOKEN_EXPIRY_BUFFER_SECONDS

\* state.expiresAt <= now + TOKEN_EXPIRY_BUFFER_SECONDS
NeedsRefresh(expiresAt, t) == expiresAt <= t + TOKEN_EXPIRY_BUFFER_SECONDS

\* !state.accessToken || !state.refreshToken || !state.expiresAt
NotConnected(state) ==
    state.accessToken = 0 \/ state.refreshToken = 0 \/ state.expiresAt = 0

\* What an engine operation leaves behind for the properties to read: how it
\* ended, which provider endpoints it called, and what a sync fetched, stored
\* and dropped; after tells how the operation before it ended.
\* stateRead: the stored state was read; listCalled: the provider's activity
\* list was asked for; payload: what the token endpoint answered; url: the
\* parameters of the authorize URL returned.
NoPayload == [access_token |-> 0, refresh_token |-> 0, expires_at |-> 0, athlete |-> NULL]
NoUrl == [client_id |-> NULL, redirect_uri |-> NULL, state |-> NULL]
NoOutcome ==
    [op |-> "init", after |-> "init", ok |-> TRUE, err |-> "",
     refreshCalled |-> FALSE, tokenCalled |-> FALSE,
     accessToken |-> 0, imported |-> 0, considered |-> 0,
     fetched |-> <<>>, stored |-> <<>>, dropped |-> {},
     stateRead |-> FALSE, listCalled |-> FALSE, payload |-> NoPayload, url |-> NoUrl,
     requests |-> <<>>]

Outcome(op) ==
    [NoOutcome EXCEPT !.op = op,
                      !.after = IF last.op # "sync" THEN "other"
                                ELSE IF last.ok THEN "sync" ELSE "failedSync"]

Failed(out, err) == [out EXCEPT !.ok = FALSE, !.err = err]

\* ensureValidTokens on the stored state at time t; refreshFails: the
\* provider's refresh endpoint throws; life: the lifetime of the new token.
ensureValidTokens(state, t, refreshFails, life) ==
    IF NotConnected(state)
    THEN [err |-> "NotConnected", state |-> state, refreshCalled |-> FALSE]
    ELSE IF NeedsRefresh(state.expiresAt, t)
    THEN IF refreshFails
         THEN [err |-> "RefreshFailed", state |-> state, refreshCalled |-> TRUE]
         ELSE [err |-> "",
               state |-> [state EXCEPT !.accessToken = provider.issued + 1,
                                       !.refreshToken = provider.issued + 1,
                                       !.expiresAt = t + life],
               refreshCalled |-> TRUE]
    ELSE [err |-> "", state |-> state, refreshCalled |-> FALSE]

\* getBaseConfig(): the provider app credentials of process.env; null when
\* one of them is not set or is empty.
getBaseConfig(e) ==
    [null |-> ~Truthy(e.STRAVA_CLIENT_ID) \/ ~Truthy(e.STRAVA_CLIENT_SECRET)
                 \/ ~Truthy(e.STRAVA_REDIRECT_URI),
     clientId |-> e.STRAVA_CLIENT_ID, clientSecret |-> e.STRAVA_CLIENT_SECRET,
     redirectUri |-> e.STRAVA_REDIRECT_URI]

\* The mutant of ensureStravaLibraryConfig: missing credentials are let through.
ensureStravaLibraryConfig_lax(cfg, e) ==
    [err |-> "", configured |-> cfg \/ ~getBaseConfig(e).null]

\* ensureStravaLibraryConfig() with the module's flag `configured` at cfg:
\* the error it throws, and the flag afterwards.
ensureStravaLibraryConfig(cfg, e) ==
    IF cfg THEN [err |-> "", configured |-> cfg]
    ELSE IF getBaseConfig(e).null
    THEN [err |-> "MissingStravaCredentials", configured |-> cfg]
    ELSE [err |-> "", configured |-> TRUE]

\* The mutant of WithPendingAuthState: the nonce is written into an empty state.
WithPendingAuthState_fresh(currentState, state) ==
    [EmptyState EXCEPT !.pendingAuthState = state]

\* currentState.pendingAuthState = state
WithPendingAuthState(currentState, state) ==
    [currentState EXCEPT !.pendingAuthState = state]

\* buildAuthorizeUrl(userId)
buildAuthorizeUrl ==
    LET lib == ensureStravaLibraryConfig(configured, env)
        baseConfig == getBaseConfig(env)
        out == Outcome("authorize")
    IN
    /\ UNCHANGED <<now, upstream>>
    /\ UNCHANGED catalogVars
    /\ UNCHANGED storageVars
    /\ UNCHANGED uiVars
    /\ IF lib.err # ""
       THEN /\ last' = Failed(out, lib.err)
            /\ UNCHANGED <<stravaState, provider, configured>>
       ELSE IF baseConfig.null
       THEN /\ last' = Failed(out, "NotConfigured")
            /\ configured' = lib.configured
            /\ UNCHANGED <<stravaState, provider>>
       ELSE /\ provider.nonces < MaxNonces
            /\ LET state == Nonces[provider.nonces + 1] IN
               /\ stravaState' = WithPendingAuthState(stravaState, state)
               /\ last' = [out EXCEPT !.stateRead = TRUE,
                                      !.url = [client_id |-> baseConfig.clientId,
                                               redirect_uri |-> baseConfig.redirectUri,
                                               state |-> state]]
            /\ provider' = [provider EXCEPT !.nonces = @ + 1]
            /\ configured' = lib.configured

\* currentState.pendingAuthState && providedState && pending !== provided
StateMismatch(pendingAuthState, providedState) ==
    /\ pendingAuthState # NULL
    /\ providedState \notin {NULL, ""}
    /\ pendingAuthState # providedState

\* What stravaApi.oauth.getToken(code) resolves to.  response: what the
\* provider's token endpoint does with the code ("incomplete": it answers
\* nothing; "noAccessToken", "noRefreshToken", "noExpiresAt", "noAthlete": the
\* answer lacks that field); token, expiresAt: what it issues.
getToken(response, token, expiresAt) ==
    LET full == [access_token |-> token, refresh_token |-> token,
                 expires_at |-> expiresAt, athlete |-> "athlete"]
    IN CASE response = "incomplete" -> NoPayload
         [] response = "noAccessToken" -> [full EXCEPT !.access_token = 0]
         [] response = "noRefreshToken" -> [full EXCEPT !.refresh_token = 0]
         [] response = "noExpiresAt" -> [full EXCEPT !.expires_at = 0]
         [] response = "noAthlete" -> [full EXCEPT !.athlete = NULL]
         [] OTHER -> full

\* The mutant of NextState: the tokens are written into an empty state.
NextState_fresh(currentState, tokenPayload) ==
    [EmptyState EXCEPT !.accessToken = tokenPayload.access_token,
                       !.refreshToken = tokenPayload.refresh_token,
                       !.expiresAt = tokenPayload.expires_at,
                       !.athlete = tokenPayload.athlete,
                       !.pendingAuthState = NULL]

\* nextState = {...currentState, accessToken, refreshToken, expiresAt,
\* athlete, pendingAuthState: null}
NextState(currentState, tokenPayload) ==
    [currentState EXCEPT !.accessToken = tokenPayload.access_token,
                         !.refreshToken = tokenPayload.refresh_token,
                         !.expiresAt = tokenPayload.expires_at,
                         !.athlete = tokenPayload.athlete,
                         !.pendingAuthState = NULL]

\* exchangeStravaCode after getToken (lines 620-634).
ExchangeStore(called, tokenPayload) ==
    IF tokenPayload.access_token = 0 \/ tokenPayload.refresh_token = 0
          \/ tokenPayload.expires_at = 0
    THEN /\ last' = Failed([called EXCEPT !.payload = tokenPayload], "UnableToExchange")
         /\ UNCHANGED <<stravaState, provider>>
    ELSE /\ provider.issued < MaxIssued
         /\ provider' = [provider EXCEPT !.issued = @ + 1]
         /\ stravaState' = NextState(stravaState, tokenPayload)
         /\ last' = [called EXCEPT !.accessToken = tokenPayload.access_token,
                                   !.payload = tokenPayload]

\* exchangeStravaCode(userId, code, providedState); response: what the
\* provider's token endpoint does with the code; lifetimes: the lifetimes it
\* may give the token.
exchangeStravaCode(providedState, response, lifetimes) ==
    LET lib == ensureStravaLibraryConfig(configured, env)
        out == Outcome("exchange")
        read == [out EXCEPT !.stateRead = TRUE]
        called == [read EXCEPT !.tokenCalled = TRUE]
    IN
    /\ UNCHANGED <<now, upstream>>
    /\ UNCHANGED catalogVars
    /\ UNCHANGED storageVars
    /\ UNCHANGED uiVars
    /\ IF lib.err # ""
       THEN /\ last' = Failed(out, lib.err)
            /\ UNCHANGED <<stravaState, provider, configured>>
       ELSE /\ configured' = lib.configured
            /\ IF StateMismatch(stravaState.pendingAuthState, providedState)
               THEN /\ last' = Failed(read, "StateMismatch")
                    /\ UNCHANGED <<stravaState, provider>>
               ELSE IF response = "error"
               THEN /\ last' = Failed(called, "TokenEndpoint")
                    /\ UNCHANGED <<stravaState, provider>>
               ELSE \E life \in lifetimes :
                       ExchangeStore(called,
                                     getToken(response, provider.issued + 1, now + life))

\* nextState of syncStravaActivities (lines 737-742).
SyncNextState(state, scan, orderedIds, summary) ==
    [state EXCEPT !.importedActivityIds = orderedIds,
                  !.lastActivityCursor =
                      IF scan.newestCursor # 0 THEN scan.newestCursor
                      ELSE state.lastActivityCursor,
                  !.lastSyncSummary = summary]

\* syncStravaActivities from storeActivities on (lines 725-749): stored is
\* what storeActivities did with scan.inputs, fail the step that throws.
SyncStore(tok, requests, activities, scan, st, orderedIds, fail) ==
    LET state == tok.state
        summary == [attemptedAt |-> now, imported |-> Len(st.records),
                    considered |-> Len(activities)]
        nextState == SyncNextState(state, scan, orderedIds, summary)
        out == [Outcome("sync") EXCEPT !.refreshCalled = tok.refreshCalled,
                                       !.accessToken = state.accessToken,
                                       !.stateRead = TRUE, !.listCalled = TRUE,
                                       !.requests = requests]
        fetched == [out EXCEPT !.considered = Len(activities),
                               !.fetched = [i \in 1..Len(activities) |-> activities[i].id]]
        stored == [fetched EXCEPT !.imported = Len(st.records),
                                  !.stored = [i \in 1..Len(st.records) |->
                                                 st.records[i].fileName],
                                  !.dropped = Range(state.importedActivityIds)
                                                 \ Range(orderedIds)]
    IN
    /\ nextId + Len(scan.inputs) <= Len(upstream) + MaxExtra
    /\ fail = "store" => Len(scan.inputs) > 0
    /\ meta' = st.meta
    /\ assets' = st.assets
    /\ nextId' = st.nextId
    /\ IF ~st.ok
       THEN /\ stravaState' = state
            /\ last' = Failed(fetched, "storeActivities")
       ELSE IF fail = "writeState"
       THEN /\ stravaState' = state
            /\ last' = Failed(stored, "WriteState")
       ELSE /\ stravaState' = nextState
            /\ last' = stored

\* syncStravaActivities from the forEach on (lines 696-749), with the
\* activities that fetchRecentActivities returned.
SyncScan(tok, requests, activities, scan, fail) ==
    \E st \in {storeActivities(meta, assets, nextId, scan.inputs, fail = "store")} :
       \E orderedIds \in {OrderedIds(scan.newImportedIds,
                                     tok.state.importedActivityIds)} :
          SyncStore(tok, requests, activities, scan, st, orderedIds, fail)

\* syncStravaActivities after ensureValidTokens (lines 692-749); tok is what
\* ensureValidTokens did.
SyncFetch(tok, requests, activities, fail) ==
    LET out == [Outcome("sync") EXCEPT !.refreshCalled = tok.refreshCalled,
                                       !.accessToken = tok.state.accessToken,
                                       !.stateRead = TRUE]
    IN
    CASE tok.err # "" ->
           /\ last' = Failed(out, tok.err)
           /\ UNCHANGED <<stravaState, meta, assets, nextId>>
      [] tok.err = "" /\ fail = "fetch" ->
           /\ last' = Failed([out EXCEPT !.listCalled = TRUE,
                                         !.requests = SubSeq(requests, 1, 1)],
                              "ListActivities")
           /\ stravaState' = tok.state
           /\ UNCHANGED <<meta, assets, nextId>>
      [] OTHER ->
           \E fetched \in {activities} :
              \E scan \in {Scan(fetched,
                                [seenIds |-> Range(tok.state.importedActivityIds),
                                 inputs |-> <<>>, newImportedIds |-> <<>>,
                                 newestCursor |-> tok.state.lastActivityCursor])} :
                 SyncScan(tok, requests, fetched, scan, fail)

\* syncStravaActivities(userId).  honor: the provider applies `after`; fail:
\* the step that throws, if any; lifetimes: the lifetimes the provider may give
\* a refreshed token.
syncStravaActivities(honor, fail, lifetimes) ==
    \E life \in (IF fail # "refresh" /\ ~NotConnected(stravaState)
                     /\ NeedsRefresh(stravaState.expiresAt, now)
                  THEN lifetimes ELSE {0}) :
    LET lib == ensureStravaLibraryConfig(configured, env)
        tok == ensureValidTokens(stravaState, now, fail = "refresh", life)
    IN
    /\ UNCHANGED <<now, upstream, res, batches, track, calls>>
    /\ UNCHANGED storageVars
    /\ UNCHANGED uiVars
    /\ IF lib.err # ""
       THEN /\ fail = "none"
            /\ last' = Failed(Outcome("sync"), lib.err)
            /\ UNCHANGED <<stravaState, provider, configured, meta, assets, nextId>>
       ELSE /\ configured' = lib.configured
            /\ fail = "refresh" => tok.refreshCalled
            /\ (tok.refreshCalled /\ fail # "refresh") => provider.issued < MaxIssued
            /\ provider' = IF tok.err = "" /\ tok.refreshCalled
                           THEN [provider EXCEPT !.issued = @ + 1] ELSE provider
            /\ SyncFetch(tok, PageRequests(tok.state.lastActivityCursor, 1, honor),
                         fetchRecentActivities(tok.state.lastActivityCursor, honor),
                         fail)

\* getStravaStatus(userId) on the stored state.
getStravaStatus(state, e) ==
    [configured |-> ~getBaseConfig(e).null, connected |-> ~NotConnected(state)]

(***************************************************************************)
(* Engine calls of one user that overlap.  Every await of buildAuthorizeUrl *)
(* and syncStravaActivities lets another call of the process run; calls[c]  *)
(* holds the local variables of call c (state: the StoredStravaState object *)
(* it read and works on) and where it stands.  wrote: the call has written  *)
(* the state file.  The process has the provider app credentials, and no    *)
(* step throws.                                                             *)
(***************************************************************************)
\* buildAuthorizeUrl up to `currentState.pendingAuthState = state`; the file
\* is written after the awaits of writeState.
AuthorizeRead(c) ==
    LET lib == ensureStravaLibraryConfig(configured, env) IN
    /\ calls[c] = Idle
    /\ lib.err = "" /\ ~getBaseConfig(env).null
    /\ provider.nonces < MaxNonces
    /\ calls' = [calls EXCEPT ![c] =
                    [op |-> "authorize", step |-> "read", wrote |-> FALSE,
                     state |-> WithPendingAuthState(stravaState,
                                                    Nonces[provider.nonces + 1])]]
    /\ provider' = [provider EXCEPT !.nonces = @ + 1]
    /\ configured' = lib.configured
    /\ UNCHANGED <<now, stravaState, upstream, last>>
    /\ UNCHANGED <<meta, assets, nextId, res, batches, track>>
    /\ UNCHANGED storageVars
    /\ UNCHANGED uiVars

\* writeState(userId, currentState) of buildAuthorizeUrl, and its return.
AuthorizeWrite(c) ==
    LET call == calls[c]
        baseConfig == getBaseConfig(env)
    IN
    /\ call.op = "authorize" /\ call.step = "read"
    /\ stravaState' = call.state
    /\ last' = [Outcome("authorize") EXCEPT
                   !.stateRead = TRUE,
                   !.url = [client_id |-> baseConfig.clientId,
                            redirect_uri |-> baseConfig.redirectUri,
                            state |-> call.state.pendingAuthState]]
    /\ calls' = [calls EXCEPT ![c] = Idle]
    /\ UNCHANGED <<now, provider, upstream, configured>>
    /\ UNCHANGED <<meta, assets, nextId, res, batches, track>>
    /\ UNCHANGED storageVars
    /\ UNCHANGED uiVars

\* ensureValidTokens up to the test of expiresAt: a user who is not connected
\* makes the sync throw.
SyncRead(c) ==
    LET lib == ensureStravaLibraryConfig(configured, env)
        state == stravaState
    IN
    /\ calls[c] = Idle
    /\ lib.err = ""
    /\ configured' = lib.configured
    /\ IF NotConnected(state)
       THEN /\ last' = Failed([Outcome("sync") EXCEPT !.stateRead = TRUE], "NotConnected")
            /\ UNCHANGED calls
       ELSE /\ calls' = [calls EXCEPT ![c] =
                            [op |-> "sync",
                             step |-> IF NeedsRefresh(state.expiresAt, now)
                                      THEN "refresh" ELSE "tokens",
                             wrote |-> FALSE, state |-> state]]
            /\ UNCHANGED last
    /\ UNCHANGED <<now, stravaState, provider, upstream>>
    /\ UNCHANGED <<meta, assets, nextId, res, batches, track>>
    /\ UNCHANGED storageVars
    /\ UNCHANGED uiVars

\* stravaApi.oauth.refreshToken(state.refreshToken) of ensureValidTokens: the
\* provider issues the next token triple and the call puts it in its state.
SyncRefresh(c, life) ==
    LET call == calls[c] IN
    /\ call.op = "sync" /\ call.step = "refresh"
    /\ provider.issued < MaxIssued + 1
    /\ provider' = [provider EXCEPT !.issued = @ + 1]
    /\ calls' = [calls EXCEPT ![c].step = "refreshed",
                              ![c].state = [call.state EXCEPT
                                               !.accessToken = provider.issued + 1,
                                               !.refreshToken = provider.issued + 1,
                                               !.expiresAt = now + life]]
    /\ UNCHANGED <<now, stravaState, upstream, last, configured>>
    /\ UNCHANGED <<meta, assets, nextId, res, batches, track>>
    /\ UNCHANGED storageVars
    /\ UNCHANGED uiVars

\* writeState(userId, state) of ensureValidTokens.
SyncRefreshWrite(c) ==
    LET call == calls[c] IN
    /\ call.op = "sync" /\ call.step = "refreshed"
    /\ stravaState' = call.state
    /\ calls' = [calls EXCEPT ![c].step = "tokens", ![c].wrote = TRUE]
    /\ UNCHANGED <<now, provider, upstream, last, configured>>
    /\ UNCHANGED <<meta, assets, nextId, res, batches, track>>
    /\ UNCHANGED storageVars
    /\ UNCHANGED uiVars

\* fetchRecentActivities and the forEach of syncStravaActivities.
SyncList(c, honor) ==
    LET call == calls[c]
        state == call.state
        activities == fetchRecentActivities(state.lastActivityCursor, honor)
    IN
    /\ call.op = "sync" /\ call.step = "tokens"
    /\ calls' = [calls EXCEPT ![c] =
                    [op |-> "sync", step |-> "scanned", wrote |-> call.wrote,
                     state |-> state,
                     fetched |-> [i \in 1..Len(activities) |-> activities[i].id],
                     scan |-> Scan(activities,
                                   [seenIds |-> Range(state.importedActivityIds),
                                    inputs |-> <<>>, newImportedIds |-> <<>>,
                                    newestCursor |-> state.lastActivityCursor])]]
    /\ UNCHANGED <<now, stravaState, provider, upstream, last, configured>>
    /\ UNCHANGED <<meta, assets, nextId, res, batches, track>>
    /\ UNCHANGED storageVars
    /\ UNCHANGED uiVars

\* stored = await storeActivities(userId, inputs)
SyncStoreInputs(c) ==
    LET call == calls[c]
        st == storeActivities(meta, assets, nextId, call.scan.inputs, FALSE)
    IN
    /\ call.op = "sync" /\ call.step = "scanned"
    /\ nextId + Len(call.scan.inputs) <= MaxRaceIds + 1
    /\ meta' = st.meta
    /\ assets' = st.assets
    /\ nextId' = st.nextId
    /\ calls' = [calls EXCEPT ![c] =
                    [op |-> "sync", step |-> "stored", wrote |-> call.wrote,
                     state |-> call.state, fetched |-> call.fetched,
                     scan |-> call.scan,
                     stored |-> [i \in 1..Len(st.records) |-> st.records[i].fileName]]]
    /\ UNCHANGED engineVars
    /\ UNCHANGED <<res, batches, track>>
    /\ UNCHANGED storageVars
    /\ UNCHANGED uiVars

\* writeState(userId, nextState) of syncStravaActivities, and its return.
SyncWrite(c) ==
    LET call == calls[c]
        state == call.state
        summary == [attemptedAt |-> now, imported |-> Len(call.stored),
                    considered |-> Len(call.fetched)]
        orderedIds == OrderedIds(call.scan.newImportedIds, state.importedActivityIds)
    IN
    /\ call.op = "sync" /\ call.step = "stored"
    /\ stravaState' = SyncNextState(state, call.scan, orderedIds, summary)
    /\ last' = [Outcome("sync") EXCEPT
                   !.stateRead = TRUE, !.listCalled = TRUE,
                   !.accessToken = state.accessToken,
                   !.considered = Len(call.fetched), !.fetched = call.fetched,
                   !.imported = Len(call.stored), !.stored = call.stored,
                   !.dropped = Range(state.importedActivityIds) \ Range(orderedIds)]
    /\ calls' = [calls EXCEPT ![c] = Idle]
    /\ UNCHANGED <<now, provider, upstream, configured>>
    /\ UNCHANGED <<meta, assets, nextId, res, batches, track>>
    /\ UNCHANGED storageVars
    /\ UNCHANGED uiVars

\* The message of the Error an engine operation throws, word by word.  The
\* engine's own errors carry the texts of the source; what the provider's
\* client and the file system throw stands for any text of theirs.
Message(err) ==
    CASE err = "NotConnected" ->
           <<"Strava", "is", "not", "connected", "for", "this", "user.">>
      [] err = "MissingStravaCredentials" ->
           <<"Missing", "Strava", "credentials.", "Set", "STRAVA_CLIENT_ID,",
             "STRAVA_CLIENT_SECRET,", "and", "STRAVA_REDIRECT_URI.">>
      [] err = "NotConfigured" ->
           <<"Strava", "is", "not", "configured", "on", "the", "server.">>
      [] err = "StateMismatch" ->
           <<"State", "mismatch.", "Start", "the", "Strava", "connection", "again.">>
      [] err = "UnableToExchange" ->
           <<"Unable", "to", "exchange", "code", "for", "tokens.">>
      [] err = "storeActivities" -> <<"Invalid", "GPX", "payload">>
      [] err = "WriteState" -> <<"EACCES:", "permission", "denied,", "open">>
      [] err \in {"RefreshFailed", "ListActivities", "TokenEndpoint"} ->
           <<"Request", "failed", "with", "status", "code", "401">>
      [] OTHER -> <<>>

\* String.prototype.toLowerCase, word by word.
toLowerCase(words) ==
    [i \in DOMAIN words |->
        CASE words[i] = "Strava" -> "strava"
          [] words[i] = "Missing" -> "missing"
          [] words[i] = "Set" -> "set"
          [] words[i] = "State" -> "state"
          [] words[i] = "Start" -> "start"
          [] words[i] = "Unable" -> "unable"
          [] words[i] = "Invalid" -> "invalid"
          [] words[i] = "GPX" -> "gpx"
          [] words[i] = "EACCES:" -> "eacces:"
          [] words[i] = "Request" -> "request"
          [] words[i] = "STRAVA_CLIENT_ID," -> "strava_client_id,"
          [] words[i] = "STRAVA_CLIENT_SECRET," -> "strava_client_secret,"
          [] words[i] = "STRAVA_REDIRECT_URI." -> "strava_redirect_uri."
          [] OTHER -> words[i]]

\* String.prototype.includes for a run of whole words.
includes(words, part) ==
    \E i \in 1..(Len(words) - Len(part) + 1) :
        SubSeq(words, i, i + Len(part) - 1) = part

\* The mutant of POST: every failure is reported as a connection issue.
POST_allConnectionIssues(out) == IF out.ok THEN 200 ELSE 400

\* POST of the sync route, for a resolved user: the status of the response
\* to what syncStravaActivities did.
POST(out) ==
    IF out.ok THEN 200
    ELSE LET message == Message(out.err)
             isConnectionIssue == includes(toLowerCase(message), <<"not", "connected">>)
         IN IF isConnectionIssue THEN 400 ELSE 500

\* The clock moves on to its next value.
Tick ==
    /\ \E t \in ClockValues :
          /\ t > now
          /\ \A u \in ClockValues : u > now => t <= u
          /\ now' = t
    /\ UNCHANGED <<stravaState, provider, upstream, last, configured>>
    /\ UNCHANGED catalogVars
    /\ UNCHANGED storageVars
    /\ UNCHANGED uiVars

FailPoints == {"none", "refresh", "fetch", "store", "writeState"}
ProvidedStates == {NULL, "", "bogus"} \cup {Nonces[i] : i \in 1..MaxNonces}

NoMeta == [exists |-> FALSE, content |-> "array", records |-> <<>>]
NoTrack == [points |-> <<>>, encoded |-> <<>>, decoded |-> <<>>, step |-> "none"]

InitCatalog ==
    /\ meta = NoMeta
    /\ assets = {}
    /\ nextId = 0
    /\ res = [op |-> "init"]
    /\ batches = <<>>
    /\ track = NoTrack
    /\ calls = <<>>

\* The file system with the storage root in place, and without it.
RootMade == (<<"srv">> :> "dir") @@ (STORAGE_ROOT :> "dir")
RootMissing == (<<"srv">> :> "dir")
NoIo == [op |-> "init"]

InitStorage ==
    /\ fs = RootMade
    /\ bucket = <<>>
    /\ driver = "local"
    /\ io = NoIo
    /\ env = LocalEnv

\* The dashboard before it is mounted.
NoDashboard == [activities |-> <<>>]
InitDashboard == dashboard = NoDashboard

InitEngine ==
    /\ now = 0
    /\ stravaState = EmptyState
    /\ provider = [issued |-> 0, nonces |-> 0]
    /\ last = NoOutcome
    /\ configured = FALSE

\* The engine: authorization, token refresh and sync over short upstream lists.
Init ==
    /\ InitEngine
    /\ InitCatalog
    /\ InitStorage
    /\ InitDashboard
    /\ upstream \in ShortUpstreams

Next ==
    \/ buildAuthorizeUrl
    \/ \E providedState \in ProvidedStates, response \in {"ok", "incomplete", "error"} :
          exchangeStravaCode(providedState, response, Lifetimes)
    \/ \E honor \in BOOLEAN, fail \in FailPoints :
          syncStravaActivities(honor, fail, Lifetimes)
    \/ Tick

Spec == Init /\ [][Next]_vars

\* The engine in a process started with any combination of the provider app
\* credentials (each not set, set to nothing or set), for a user who
\* authorizes, connects, syncs and connects again; the token endpoint answers
\* in any of the ways of TokenResponses.
TokenResponses ==
    {"ok", "incomplete", "noAccessToken", "noRefreshToken", "noExpiresAt",
     "noAthlete", "error"}
StravaSettings ==
    { [LocalEnv EXCEPT !.STRAVA_CLIENT_ID = clientId,
                       !.STRAVA_CLIENT_SECRET = clientSecret,
                       !.STRAVA_REDIRECT_URI = redirectUri] :
        clientId \in {NULL, "", "id"}, clientSecret \in {NULL, "", "secret"},
        redirectUri \in {NULL, "", "uri"} }

InitOfAuth ==
    /\ InitDashboard
    /\ now = 0
    /\ stravaState = EmptyState
    /\ provider = [issued |-> 0, nonces |-> 0]
    /\ last = NoOutcome
    /\ configured = FALSE
    /\ InitCatalog
    /\ fs = RootMade
    /\ bucket = <<>>
    /\ driver = "local"
    /\ io = NoIo
    /\ env \in StravaSettings
    /\ upstream = <<A1>>

NextAuth ==
    \/ buildAuthorizeUrl
    \/ \E providedState \in ProvidedStates, response \in TokenResponses :
          exchangeStravaCode(providedState, response, {30, 300})
    \/ \E fail \in FailPoints : syncStravaActivities(TRUE, fail, {300})
    \/ Tick

SpecAuth == InitOfAuth /\ [][NextAuth]_vars

\* The sync of a user who connects once, over upstream lists short and long.
InitSync ==
    /\ InitEngine
    /\ InitCatalog
    /\ InitStorage
    /\ InitDashboard
    /\ upstream \in SmallUpstreams \cup LongUpstreams

NextSync ==
    \/ NotConnected(stravaState) /\ exchangeStravaCode(NULL, "ok", {30, 300})
    \/ \E honor \in BOOLEAN, fail \in FailPoints :
          syncStravaActivities(honor, fail, {300})

SpecSync == InitSync /\ [][NextSync]_vars

\* The sync of a user who connects once, over lists whose activities start
\* before and after one another, two of them without a numeric id.
CursorUpstreams == { <<A5, A3, A1, A6>>, <<A1, A4, A8>> }

InitOfCursor ==
    /\ InitEngine
    /\ InitCatalog
    /\ InitStorage
    /\ InitDashboard
    /\ upstream \in CursorUpstreams

NextCursor ==
    \/ NotConnected(stravaState) /\ exchangeStravaCode(NULL, "ok", {30, 300})
    \/ \E honor \in BOOLEAN, fail \in FailPoints :
          syncStravaActivities(honor, fail, {300})
    \/ Tick

SpecCursor == InitOfCursor /\ [][NextCursor]_vars

\* The sync over answers of the provider that hold an activity twice: next to
\* itself, and as the last of one page and the first of the next (the list
\* shifted by one between the two page requests).
ShiftedLen == 52
DuplicateUpstreams ==
    { <<A3, A1, A1, A4, A4, A2, A2>>,
      [i \in 1..ShiftedLen |-> IF i <= PER_PAGE THEN Bulk(i) ELSE Bulk(i - 1)] }

InitOfDuplicates ==
    /\ InitEngine
    /\ InitCatalog
    /\ InitStorage
    /\ InitDashboard
    /\ upstream \in DuplicateUpstreams

SpecDuplicates == InitOfDuplicates /\ [][NextSync]_vars

\* Syncs called again and again for a user who connects once, against a
\* provider that applies `after` and lists ascending by start time; no step
\* fails and the token outlives the run.  The lists: short ones, one of two
\* activities that start together, and lists longer than three pages, in one
\* of which the last activity of the third page and the one behind it start
\* together.
TiedAt == MAX_SYNC_PAGES * PER_PAGE
Tied(i) == Act(1000 + i, "Ride", TRUE, 2, 1000 + Min(i, TiedAt), "ok")
RepeatUpstreams ==
    { <<A3, A1, A2>>, <<A1, A7>>,
      <<A1, Act(8, "Walk", TRUE, 2, 20, "ok")>>,
      [i \in 1..LongListLen |-> Bulk(i)],
      [i \in 1..LongListLen |-> Tied(i)],
      [i \in 1..HugeListLen |-> Bulk(i)] }

InitOfRepeat ==
    /\ InitEngine
    /\ InitCatalog
    /\ InitStorage
    /\ InitDashboard
    /\ upstream \in RepeatUpstreams

NextRepeat ==
    \/ NotConnected(stravaState) /\ exchangeStravaCode(NULL, "ok", {300})
    \/ syncStravaActivities(TRUE, "none", {300})
    \/ buildAuthorizeUrl
    \/ Tick

SpecRepeat ==
    /\ InitOfRepeat
    /\ [][NextRepeat]_vars
    /\ WF_vars(NotConnected(stravaState) /\ exchangeStravaCode(NULL, "ok", {300}))
    /\ WF_vars(syncStravaActivities(TRUE, "none", {300}))

\* The catalog of one user: batches of uploads, deletions and listings.
GoodA == Input("a", "hiking", "a.gpx", TRUE)
GoodB == Input("b", "walking", "b.gpx", TRUE)
BadGpx == Input("c", "hiking", "c.gpx", FALSE)
CatalogEntries ==
    { <<>>, <<GoodA>>, <<GoodB, GoodA>>, <<GoodA, BadGpx>>, <<BadGpx, GoodB>> }

InitOfCatalog ==
    /\ InitEngine
    /\ InitCatalog
    /\ InitStorage
    /\ InitDashboard
    /\ upstream = <<>>

NextCatalog ==
    \/ \E entries \in CatalogEntries, writeFails \in BOOLEAN :
          StoreActivitiesCall(entries, writeFails)
    \/ \E activityId \in 0..MaxStored, fail \in {"none", "writeRecords", "unlink"} :
          deleteActivity(activityId, fail)
    \/ GetActivitiesCall
    \/ RemoveAssetFile

SpecCatalog == InitOfCatalog /\ [][NextCatalog]_vars

(***************************************************************************)
(* POST /api/activities (app/api/activities/route.ts)                      *)
(***************************************************************************)
\* The values of SPORT_OPTIONS.
VALID_SPORTS ==
    {"walking", "hiking", "alpine-ski", "nordic-ski", "touring-ski",
     "road-cycling", "gravel-cycling", "mountain-cycling"}

\* A JSON value in the place of a coordinate: a number, a number too large
\* for a double (1e999 parses to Infinity), null, a string that holds a
\* numeral, and a string that holds none.
JsonNumber(v) == [json |-> "number", value |-> v]
JsonHuge == [json |-> "huge", value |-> 0]
JsonNull == [json |-> "null", value |-> 0]
JsonNumeral(v) == [json |-> "numeral", value |-> v]
JsonText == [json |-> "text", value |-> 0]

\* Number(x) of such a value: null is 0, a numeral is its number, other
\* text is NaN.
ToNumber(x) ==
    [finite |-> x.json \in {"number", "null", "numeral"},
     value |-> IF x.json \in {"number", "numeral"} THEN x.value ELSE 0]

\* An entry of a points array: pair tells whether it is an array of length 2.
RawPoint(pair, lat, lng) == [pair |-> pair, lat |-> lat, lng |-> lng]

\* sanitizePoints(value): the entries that are pairs of finite numbers.
sanitizePoints(value) ==
    IF ~value.isArray THEN <<>>
    ELSE LET kept == SelectSeq(value.items,
                        LAMBDA entry : /\ entry.pair
                                       /\ ToNumber(entry.lat).finite
                                       /\ ToNumber(entry.lng).finite)
         IN [i \in 1..Len(kept) |->
                <<ToNumber(kept[i].lat).value, ToNumber(kept[i].lng).value>>]

\* String.prototype.trim on the strings of the model, and
\* fileName.replace(/\.gpx$/i, "").
TrimText(text) ==
    CASE text = " " -> ""
      [] text = " a " -> "a"
      [] text = " b.GPX" -> "b.GPX"
      [] OTHER -> text
StripGpx(fileName) ==
    CASE fileName = "a.gpx" -> "a"
      [] fileName = "b.GPX" -> "b"
      [] fileName = "activity.gpx" -> "activity"
      [] OTHER -> fileName

\* An element of the activities array: JSON null, a JSON scalar, or an
\* object; a field that is missing or not a string is NULL.
RawEntry(json, name, sport, fileName, points, rawGpx) ==
    [json |-> json, name |-> name, sport |-> sport, fileName |-> fileName,
     points |-> points, rawGpx |-> rawGpx]

\* The callback of rawActivities.map on an object or a scalar returns null,
\* and filter(Boolean) drops the entry, unless SanitizeKeeps.
SanitizeKeeps(entry) ==
    /\ Len(sanitizePoints(entry.points)) >= 2
    /\ entry.sport # NULL /\ entry.sport \in VALID_SPORTS
    /\ entry.rawGpx # NULL /\ TrimText(entry.rawGpx) # ""

\* The ActivityInput the callback returns for an entry that is kept.  The
\* model's convertGpxToGeoJson accepts the payload "gpx".
Sanitize(entry) ==
    LET points == sanitizePoints(entry.points)
        name == IF entry.name # NULL /\ TrimText(entry.name) # ""
                THEN TrimText(entry.name) ELSE NULL
        fileName == IF entry.fileName # NULL /\ TrimText(entry.fileName) # ""
                    THEN TrimText(entry.fileName) ELSE "activity.gpx"
    IN [sport |-> entry.sport, points |-> points,
        name |-> IF name # NULL THEN name ELSE StripGpx(fileName),
        fileName |-> fileName, gpxOk |-> entry.rawGpx = "gpx"]

\* entry.points of a JSON null throws a TypeError.
SanitizeThrows(entry) == entry.json = "null"

\* A request body: text that is not JSON, or a JSON document that is null,
\* a scalar, an object without activities, an object whose activities is not
\* an array, or an object with the array items.
Body(form, items) == [form |-> form, items |-> items]

\* POST up to the call of storeActivities: the answer so far, whether
\* storeActivities is called, and with which entries.  An exception of the
\* map callback is caught by nothing in the handler: the framework answers
\* 500.
PostOutcome(userId, body) ==
    IF userId = NULL THEN [status |-> 401, called |-> FALSE, sanitized |-> <<>>]
    ELSE IF body.form = "notJson"
    THEN [status |-> 400, called |-> FALSE, sanitized |-> <<>>]
    ELSE IF body.form # "array"
    THEN [status |-> 400, called |-> FALSE, sanitized |-> <<>>]
    ELSE IF \E i \in 1..Len(body.items) : SanitizeThrows(body.items[i])
    THEN [status |-> 500, called |-> FALSE, sanitized |-> <<>>]
    ELSE LET kept == SelectSeq(body.items, SanitizeKeeps)
             sanitized == [i \in 1..Len(kept) |-> Sanitize(kept[i])]
         IN IF Len(sanitized) = 0
            THEN [status |-> 400, called |-> FALSE, sanitized |-> <<>>]
            ELSE [status |-> 201, called |-> TRUE, sanitized |-> sanitized]

\* The uploads stop when this many entries were stored.
MaxUploaded == 2

\* The dashboard's log stops at this many events.
MaxEvents == 7

\* A request POST /api/activities by userId (NULL: resolveUserId gives
\* null); writeFails: writeRecords throws.
PostActivities(userId, body, writeFails) ==
    \E out \in {PostOutcome(userId, body)} :
    \E st \in {storeActivities(meta, assets, nextId, out.sanitized, writeFails)} :
    /\ nextId + Len(out.sanitized) <= MaxUploaded
    /\ writeFails => out.called /\ Len(out.sanitized) > 0 /\ ~readRecordsThrows(meta)
    /\ meta' = IF out.called THEN st.meta ELSE meta
    /\ assets' = IF out.called THEN st.assets ELSE assets
    /\ nextId' = IF out.called THEN st.nextId ELSE nextId
    /\ res' = [op |-> "post", userId |-> userId, body |-> body,
               called |-> out.called, passed |-> out.sanitized,
               status |-> IF out.called /\ ~st.ok THEN 500 ELSE out.status,
               ok |-> out.called /\ st.ok,
               returned |-> IF out.called
                            THEN [i \in 1..Len(st.records) |-> ToDTO(st.records[i])]
                            ELSE <<>>]
    /\ batches' = IF out.called /\ st.ok /\ Len(out.sanitized) > 0
                  THEN Append(batches,
                              [i \in 1..Len(out.sanitized) |->
                                  [id |-> st.records[i].id,
                                   name |-> out.sanitized[i].name]])
                  ELSE batches
    /\ UNCHANGED <<track, calls>>
    /\ UNCHANGED engineVars
    /\ UNCHANGED storageVars
    /\ UNCHANGED uiVars

\* Points arrays and entries of the uploads.
PointsOf(items) == [isArray |-> TRUE, items |-> items]
NotAnArray == [isArray |-> FALSE, items |-> <<>>]
P12 == RawPoint(TRUE, JsonNumber(1), JsonNumber(2))
P34 == RawPoint(TRUE, JsonNumber(3), JsonNumber(4))
TwoPoints == PointsOf(<<P12, P34>>)
MixedPoints ==
    PointsOf(<<RawPoint(TRUE, JsonText, JsonNumber(3)), P12,
               RawPoint(FALSE, JsonNumber(5), JsonNumber(6)),
               RawPoint(TRUE, JsonNull, JsonNumeral(5)),
               RawPoint(TRUE, JsonNumber(7), JsonHuge)>>)
OneFinitePoint == PointsOf(<<P12, RawPoint(TRUE, JsonHuge, JsonNumber(4))>>)

RawGood == RawEntry("object", " a ", "hiking", "a.gpx", TwoPoints, "gpx")
RawMixed == RawEntry("object", NULL, "walking", " b.GPX", MixedPoints, "gpx")
RawUnnamed == RawEntry("object", " ", "road-cycling", NULL, TwoPoints, "gpx")
RawJunkGpx == RawEntry("object", "c", "hiking", "c.gpx", TwoPoints, "junk")
RawOnePoint == RawEntry("object", "d", "hiking", "d.gpx", OneFinitePoint, "gpx")
RawNoPoints == RawEntry("object", "e", "hiking", "e.gpx", NotAnArray, "gpx")
RawYoga == RawEntry("object", "f", "yoga", "f.gpx", TwoPoints, "gpx")
RawNoSport == RawEntry("object", "g", NULL, "g.gpx", TwoPoints, "gpx")
RawBlankGpx == RawEntry("object", "h", "hiking", "h.gpx", TwoPoints, " ")
RawNoGpx == RawEntry("object", "i", "hiking", "i.gpx", TwoPoints, NULL)
RawScalar == RawEntry("scalar", NULL, NULL, NULL, NotAnArray, NULL)
RawNull == RawEntry("null", NULL, NULL, NULL, NotAnArray, NULL)

RawEntries ==
    {RawGood, RawMixed, RawUnnamed, RawJunkGpx, RawOnePoint, RawNoPoints,
     RawYoga, RawNoSport, RawBlankGpx, RawNoGpx, RawScalar, RawNull}

MaxItems == 2
Bodies ==
    {Body(form, <<>>) : form \in {"notJson", "null", "scalar", "noActivities",
                                  "activitiesNotArray"}}
    \cup {Body("array", items) :
             items \in UNION {[1..n -> RawEntries] : n \in 0..MaxItems}}

NextUpload ==
    \/ \E userId \in {NULL, "u"}, body \in Bodies, writeFails \in BOOLEAN :
          PostActivities(userId, body, writeFails)
    \/ GetActivitiesCall

SpecUpload == InitOfCatalog /\ [][NextUpload]_vars

\* The catalog calls on a metadata file that is missing, or that something
\* else than writeRecords left behind.
MetadataFiles ==
    {NoMeta} \cup {[exists |-> TRUE, content |-> k, records |-> <<>>] :
                      k \in MetaContents \ {"array"}}

InitOfMetadata ==
    /\ InitEngine
    /\ InitStorage
    /\ InitDashboard
    /\ upstream = <<>>
    /\ meta \in MetadataFiles
    /\ assets = {}
    /\ nextId = 0
    /\ res = [op |-> "init"]
    /\ batches = <<>>
    /\ track = NoTrack
    /\ calls = <<>>

SpecMetadata == InitOfMetadata /\ [][NextCatalog]_vars

\* One user's uploads, deletions and syncs, all on the same catalog.
InitOfUser ==
    /\ InitEngine
    /\ InitCatalog
    /\ InitStorage
    /\ InitDashboard
    /\ upstream = <<A1, A4, A7>>

UserEntries == { <<GoodA>>, <<GoodB, GoodA>> }

NextUser ==
    \/ NotConnected(stravaState) /\ exchangeStravaCode(NULL, "ok", {30})
    \/ \E honor \in BOOLEAN, fail \in FailPoints :
          nextId < MaxUserIds /\ syncStravaActivities(honor, fail, {300})
    \/ \E entries \in UserEntries, writeFails \in BOOLEAN :
          nextId < MaxUserIds /\ StoreActivitiesCall(entries, writeFails)
    \/ \E activityId \in 1..MaxStored, fail \in {"none", "writeRecords", "unlink"} :
          deleteActivity(activityId, fail)

SpecUser == InitOfUser /\ [][NextUser]_vars

\* Two callers of one user's catalog, whose calls may overlap.
Callers == {"first", "second"}
RaceEntries == { <<GoodA>>, <<GoodB>>, <<GoodB, BadGpx>> }

InitOfRace ==
    /\ InitEngine
    /\ InitStorage
    /\ InitDashboard
    /\ upstream = <<>>
    /\ meta = NoMeta
    /\ assets = {}
    /\ nextId = 0
    /\ res = [op |-> "init"]
    /\ batches = <<>>
    /\ track = NoTrack
    /\ calls = [c \in Callers |-> Idle]

NextRace ==
    \E c \in Callers :
       \/ \E entries \in RaceEntries : StoreRead(c, entries)
       \/ StoreMap(c)
       \/ StoreWrite(c)
       \/ \E activityId \in 1..MaxRaceIds : DeleteRead(c, activityId)
       \/ DeleteWrite(c)
       \/ DeleteUnlink(c)

SpecRace == InitOfRace /\ [][NextRace]_vars

\* Two callers of one user's engine whose calls may overlap: the user
\* connects, starts authorizations and syncs; the token issued by the
\* exchange is due for a refresh once the clock has moved.
InitOfOverlap ==
    /\ InitEngine
    /\ InitStorage
    /\ InitDashboard
    /\ upstream = <<A3, A1>>
    /\ meta = NoMeta
    /\ assets = {}
    /\ nextId = 0
    /\ res = [op |-> "init"]
    /\ batches = <<>>
    /\ track = NoTrack
    /\ calls = [c \in Callers |-> Idle]

NextOverlap ==
    \/ NotConnected(stravaState) /\ exchangeStravaCode(NULL, "ok", {90})
    \/ Tick
    \/ \E c \in Callers :
          \/ AuthorizeRead(c)
          \/ AuthorizeWrite(c)
          \/ SyncRead(c)
          \/ SyncRefresh(c, 300)
          \/ SyncRefreshWrite(c)
          \/ SyncList(c, TRUE)
          \/ SyncStoreInputs(c)
          \/ SyncWrite(c)

SpecOverlap == InitOfOverlap /\ [][NextOverlap]_vars

\* The same with syncs only.
NextTwoSyncs ==
    \/ NotConnected(stravaState) /\ exchangeStravaCode(NULL, "ok", {90})
    \/ Tick
    \/ \E c \in Callers :
          \/ SyncRead(c)
          \/ SyncRefresh(c, 300)
          \/ SyncRefreshWrite(c)
          \/ SyncList(c, TRUE)
          \/ SyncStoreInputs(c)
          \/ SyncWrite(c)

SpecTwoSyncs == InitOfOverlap /\ [][NextTwoSyncs]_vars

\* The codec over tracks of a few points: latitudes and longitudes at the
\* ends of their ranges, next to zero on both sides and halfway between two
\* steps of the scale, and numbers far outside the range of a coordinate.
Latitudes ==
    { Coord(0, 0), Coord(-1, 5), Coord(16, 4), Coord(-9000000, 0),
      Coord(9000000, 0), Coord(TwoTo30 - 1, 0) }
Longitudes ==
    { Coord(-18000000, 0), Coord(18000000, 0), Coord(3, 7),
      Coord(-TwoTo30, 0), Coord(TwoTo30 \div 2, 0) }
Tracks ==
    UNION { [1..n -> Latitudes \X Longitudes] : n \in 0..MaxPoints }

InitOfCodec ==
    /\ InitEngine
    /\ InitStorage
    /\ InitDashboard
    /\ upstream = <<>>
    /\ meta = NoMeta
    /\ assets = {}
    /\ nextId = 0
    /\ res = [op |-> "init"]
    /\ batches = <<>>
    /\ calls = <<>>
    /\ \E points \in Tracks : track = [NoTrack EXCEPT !.points = points, !.step = "given"]

NextCodec == EncodeTrack \/ DecodeTrack

SpecCodec == InitOfCodec /\ [][NextCodec]_vars

\* decodePoints on any string of up to MaxChars characters: characters of
\* the alphabet that end a group ("?", "@", "^") and that continue one ("_",
\* "~"), and characters outside it (a space, below the offset, and U+00C8 and
\* U+FFFF, above the alphabet).
MaxChars == 3
CharCodes == {63, 64, 94, 95, 126, 32, 200, 65535}
Strings == UNION { [1..n -> CharCodes] : n \in 0..MaxChars }

InitOfDecoder ==
    /\ InitEngine
    /\ InitStorage
    /\ InitDashboard
    /\ upstream = <<>>
    /\ meta = NoMeta
    /\ assets = {}
    /\ nextId = 0
    /\ res = [op |-> "init"]
    /\ batches = <<>>
    /\ calls = <<>>
    /\ \E encoded \in Strings :
          track = [points |-> <<>>, encoded |-> encoded, decoded |-> <<>>,
                   step |-> "decoding", index |-> 1, lat |-> Num(0), lng |-> Num(0),
                   half |-> "lat", inValue |-> FALSE, shift |-> 0, bits |-> {},
                   deltaLat |-> 0]

NextDecoder == DecodeByte \/ DecodeReturn

SpecDecoder == InitOfDecoder /\ [][NextDecoder]_vars /\ WF_vars(NextDecoder)

\* The way of a provider polyline into the catalog and out of it.  The
\* polylines are the strings above and longer ones: a latitude of -2^30 in
\* seven characters, two points whose latitudes add up to 2^31 - 2, a group
\* of eight characters (the shift wraps around at 32), and a group that
\* sets bit 31 only.
LongPolylines ==
    { <<126, 126, 126, 126, 126, 126, 64, 63>>,
      <<125, 126, 126, 126, 126, 126, 64, 63,
        125, 126, 126, 126, 126, 126, 64, 64>>,
      <<95, 95, 95, 95, 95, 95, 95, 64, 65>>,
      <<95, 95, 95, 95, 95, 95, 65, 126>> }

InitOfPolyline ==
    /\ InitEngine
    /\ InitStorage
    /\ InitDashboard
    /\ upstream = <<>>
    /\ meta = NoMeta
    /\ assets = {}
    /\ nextId = 0
    /\ res = [op |-> "init"]
    /\ batches = <<>>
    /\ calls = <<>>
    /\ \E polyline \in Strings \cup LongPolylines :
          track = [points |-> <<>>, encoded |-> <<>>, decoded |-> <<>>,
                   step |-> "fetched", polyline |-> polyline]

NextPolyline == ImportTrack \/ EncodeTrack \/ DecodeTrack

SpecPolyline == InitOfPolyline /\ [][NextPolyline]_vars

\* The storage under either driver: reads, writes and deletes of a few keys.
StorageKeys ==
    { <<"a">>, <<"b">>, <<"a", "b">>, <<"", "a">>, <<"a", "", "b">>, <<"a b">> }
Contents == {"x", "y"}

InitOfStorage ==
    /\ InitDashboard
    /\ InitEngine
    /\ InitCatalog
    /\ upstream = <<>>
    /\ env \in {LocalEnv, BucketEnv}
    /\ driver = (IF useBucketDriver(env) THEN "bucket" ELSE "local")
    /\ fs \in {RootMade, RootMissing}
    /\ bucket = <<>>
    /\ io = NoIo

NextStorage ==
    \E key \in StorageKeys, answer \in {"serve", "refuse"} :
       \/ ReadStorageFileCall(key, answer)
       \/ \E content \in Contents : WriteStorageFileCall(key, content, NULL, answer)
       \/ DeleteStorageFileCall(key, answer)

SpecStorage == InitOfStorage /\ [][NextStorage]_vars

\* The Local driver handed keys that name something outside the storage
\* root: "a", "./a", "a/../../secret", "../secret" and "/srv/secret", with a
\* file /srv/secret next to the root.
OutsideFile == <<"srv", "secret">>
TraversalKeys ==
    { <<"a">>, <<".", "a">>, <<"a", "..", "..", "secret">>, <<"..", "secret">>,
      <<"", "srv", "secret">> }

InitOfTraversal ==
    /\ InitDashboard
    /\ InitEngine
    /\ InitCatalog
    /\ upstream = <<>>
    /\ env = LocalEnv
    /\ driver = (IF useBucketDriver(env) THEN "bucket" ELSE "local")
    /\ fs = (OutsideFile :> "s") @@ RootMade
    /\ bucket = <<>>
    /\ io = NoIo

NextTraversal ==
    \E key \in TraversalKeys :
       \/ ReadStorageFileCall(key, "serve")
       \/ \E content \in Contents : WriteStorageFileCall(key, content, NULL, "serve")
       \/ DeleteStorageFileCall(key, "serve")

SpecTraversal == InitOfTraversal /\ [][NextTraversal]_vars

\* The Bucket driver, configured, in front of an endpoint that answers each
\* request in any of the ways of Answers.
Answers == Serving \cup DOMAIN AnswerStatus
BucketKeys == {<<"a">>, <<"b">>}

InitOfBucket ==
    /\ InitDashboard
    /\ InitEngine
    /\ InitCatalog
    /\ upstream = <<>>
    /\ env = BucketEnv
    /\ driver = (IF useBucketDriver(env) THEN "bucket" ELSE "local")
    /\ fs = RootMade
    /\ bucket = <<>>
    /\ io = NoIo

NextBucket ==
    \E key \in BucketKeys, answer \in Answers :
       \/ ReadStorageFileCall(key, answer)
       \/ \E content \in Contents : WriteStorageFileCall(key, content, NULL, answer)
       \/ DeleteStorageFileCall(key, answer)

SpecBucket == InitOfBucket /\ [][NextBucket]_vars

\* The Bucket driver signing requests under the settings that shape them:
\* prefix, region, endpoint, addressing style and session token; for keys
\* with leading slashes, characters to encode and segments "." and "..".
SignerSettings ==
    { [BucketEnv EXCEPT !.STORAGE_BUCKET_PREFIX = prefix,
                        !.STORAGE_BUCKET_REGION = region,
                        !.STORAGE_BUCKET_ENDPOINT = endpoint,
                        !.STORAGE_BUCKET_FORCE_PATH_STYLE = style,
                        !.AWS_SESSION_TOKEN = token] :
        prefix \in {NULL, "/p/", "p/.."}, region \in {NULL, "eu-west-1"},
        endpoint \in {NULL, "https://minio.local:9000"},
        style \in {NULL, "true", "false"}, token \in {NULL, "token"} }
SignerKeys ==
    { <<"a">>, <<"", "a", "b">>, <<"a b">>, <<"a!">>, <<".", "a">>,
      <<"a", "..", "b">>, <<"..", "a">> }
ContentTypes == {NULL, "text/plain", " text/plain "}

InitOfSigner ==
    /\ InitDashboard
    /\ InitEngine
    /\ InitCatalog
    /\ upstream = <<>>
    /\ env \in SignerSettings
    /\ driver = (IF useBucketDriver(env) THEN "bucket" ELSE "local")
    /\ fs = RootMade
    /\ bucket = <<>>
    /\ io = NoIo

\* The first request of the process.
NextSigner ==
    /\ io = NoIo
    /\ \E key \in SignerKeys :
          \/ ReadStorageFileCall(key, "serve")
          \/ \E contentType \in ContentTypes :
                WriteStorageFileCall(key, "x", contentType, "serve")
          \/ DeleteStorageFileCall(key, "serve")

SpecSigner == InitOfSigner /\ [][NextSigner]_vars

\* The process started with any combination of the storage settings: each
\* variable not set, set to nothing or set; STORAGE_DRIVER also in other
\* letter cases and with a value that names no driver.
DriverSettings == {NULL, "", "local", "LOCAL", "bucket", "Bucket", "s3"}
EnvSettings ==
    { Env(storageDriver, name, keyId, awsKeyId, secret, awsSecret) :
        storageDriver \in DriverSettings,
        name \in {NULL, "", "bucket"},
        keyId \in {NULL, "", "key"}, awsKeyId \in {NULL, "awskey"},
        secret \in {NULL, "", "secret"}, awsSecret \in {NULL, "awssecret"} }

InitOfConfig ==
    /\ InitDashboard
    /\ InitEngine
    /\ InitCatalog
    /\ upstream = <<>>
    /\ env \in EnvSettings
    /\ driver = (IF useBucketDriver(env) THEN "bucket" ELSE "local")
    /\ fs = RootMade
    /\ bucket = <<>>
    /\ io = NoIo

NextConfig ==
    \/ ReadStorageFileCall(<<"a">>, "serve")
    \/ \E content \in Contents : WriteStorageFileCall(<<"a">>, content, NULL, "serve")
    \/ DeleteStorageFileCall(<<"a">>, "serve")

SpecConfig == InitOfConfig /\ [][NextConfig]_vars

(***************************************************************************)
(* The cell index of the dashboard (lib/grid.ts, dashboard.tsx)            *)
(*                                                                         *)
(* Coordinates and the grid size are whole numbers of one unit; a cell id  *)
(* "latIndex:lngIndex" is the pair of its indexes, which parseCellId reads *)
(* back from the string; a Map is a function on its keys.                  *)
(***************************************************************************)
\* getCellId(lat, lng, gridSize): Math.floor of the quotients.
getCellId(lat, lng, gridSize) == <<lat \div gridSize, lng \div gridSize>>

\* parseCellId(cellId)
parseCellId(cellId) == [latIndex |-> cellId[1], lngIndex |-> cellId[2]]

\* getCellBounds(latIndex, lngIndex, gridSize)
getCellBounds(latIndex, lngIndex, gridSize) ==
    <<<<latIndex * gridSize, lngIndex * gridSize>>,
      <<(latIndex + 1) * gridSize, (lngIndex + 1) * gridSize>>>>

\* The body of activity.points.forEach for a cell the activity was not seen
\* in: the cell's entry, made if there is none, gets the id and the count.
AddToCell(cells, cellId, activity, gridSize) ==
    LET parsed == parseCellId(cellId)
        cell == IF cellId \in DOMAIN cells THEN cells[cellId]
                ELSE [id |-> cellId,
                      bounds |-> getCellBounds(parsed.latIndex, parsed.lngIndex,
                                               gridSize),
                      activityIds |-> <<>>, sports |-> <<>>]
        count == IF activity.sport \in DOMAIN cell.sports
                 THEN cell.sports[activity.sport] ELSE 0
    IN (cellId :> [cell EXCEPT !.activityIds = Append(@, activity.id),
                               !.sports = (activity.sport :> count + 1) @@ @])
       @@ cells

\* activity.points.forEach from the i-th point on.
RECURSIVE IndexPoints(_, _, _, _, _)
IndexPoints(cells, seen, activity, i, gridSize) ==
    IF i > Len(activity.points) THEN cells
    ELSE LET cellId == getCellId(activity.points[i][1], activity.points[i][2],
                                 gridSize)
         IN IF cellId \in seen
            THEN IndexPoints(cells, seen, activity, i + 1, gridSize)
            ELSE IndexPoints(AddToCell(cells, cellId, activity, gridSize),
                             seen \cup {cellId}, activity, i + 1, gridSize)

\* activities.forEach from the k-th activity on.
RECURSIVE IndexActivities(_, _, _, _, _)
IndexActivities(cells, activities, k, gridSize, includeHidden) ==
    IF k > Len(activities) THEN cells
    ELSE IF ~includeHidden /\ ~activities[k].visible
    THEN IndexActivities(cells, activities, k + 1, gridSize, includeHidden)
    ELSE IndexActivities(IndexPoints(cells, {}, activities[k], 1, gridSize),
                         activities, k + 1, gridSize, includeHidden)

\* The mutant of buildCellIndex: hidden activities are always included.
buildCellIndex_hiddenToo(activities, gridSize, includeHidden) ==
    IndexActivities(<<>>, activities, 1, gridSize, TRUE)

\* buildCellIndex(activities, gridSize, includeHidden)
buildCellIndex(activities, gridSize, includeHidden) ==
    IndexActivities(<<>>, activities, 1, gridSize, includeHidden)

\* handleToggle(id)
handleToggle(id) ==
    /\ dashboard' =
          [dashboard EXCEPT !.activities =
              [k \in 1..Len(@) |->
                  IF @[k].id = id THEN [@[k] EXCEPT !.visible = ~@]
                  ELSE @[k]]]
    /\ UNCHANGED catalogVars
    /\ UNCHANGED engineVars
    /\ UNCHANGED storageVars

\* handleToggleAll()
handleToggleAll ==
    LET allVisible == \A k \in 1..Len(dashboard.activities) :
                         dashboard.activities[k].visible
    IN
    /\ dashboard' =
          [dashboard EXCEPT !.activities =
              [k \in 1..Len(@) |-> [@[k] EXCEPT !.visible = ~allVisible]]]
    /\ UNCHANGED catalogVars
    /\ UNCHANGED engineVars
    /\ UNCHANGED storageVars

\* handleGroupVisibilityToggle(sport, exclusive)
handleGroupVisibilityToggle(sport, exclusive) ==
    LET prev == dashboard.activities
        groupAllVisible == \A k \in 1..Len(prev) :
                              prev[k].sport = sport => prev[k].visible
    IN
    /\ dashboard' =
          [dashboard EXCEPT !.activities =
              IF exclusive
              THEN [k \in 1..Len(prev) |->
                       [prev[k] EXCEPT !.visible = (prev[k].sport = sport)]]
              ELSE [k \in 1..Len(prev) |->
                       IF prev[k].sport = sport
                       THEN [prev[k] EXCEPT !.visible = ~groupAllVisible]
                       ELSE prev[k]]]
    /\ UNCHANGED catalogVars
    /\ UNCHANGED engineVars
    /\ UNCHANGED storageVars

\* The activities the dashboard shows: up to MaxShown of them, with ids all
\* different (they are the record ids of the catalog) and all visible when
\* they are loaded, each with one of the point lists: none, one point, two
\* points of one cell of the wider grid, and a track that comes back to a
\* cell it left, south of the equator.
MaxShown == 3
GridSizes == {1, 2}
IndexSports == {"hiking", "walking"}
PointLists ==
    { <<>>, <<<<0, 0>>>>, <<<<0, 0>>, <<1, 1>>>>,
      <<<<-1, 0>>, <<0, 0>>, <<-1, 1>>, <<-2, 1>>>> }
ShownActivities ==
    UNION { [1..n -> [sport : IndexSports, points : PointLists]] : n \in 0..MaxShown }

InitOfIndex ==
    /\ InitEngine
    /\ InitCatalog
    /\ fs = RootMade /\ bucket = <<>> /\ driver = "local" /\ io = NoIo /\ env = LocalEnv
    /\ upstream = <<>>
    /\ \E shown \in ShownActivities, gridSize \in GridSizes :
          dashboard =
             [activities |->
                 [k \in 1..Len(shown) |->
                     [id |-> k, sport |-> shown[k].sport, visible |-> TRUE,
                      points |-> shown[k].points]],
              gridSize |-> gridSize]

NextIndex ==
    \/ \E id \in 1..MaxShown : handleToggle(id)
    \/ handleToggleAll
    \/ \E sport \in IndexSports, exclusive \in BOOLEAN :
          handleGroupVisibilityToggle(sport, exclusive)

SpecIndex == InitOfIndex /\ [][NextIndex]_vars

(***************************************************************************)
(* Deleting an activity in the dashboard (dashboard.tsx)                   *)
(*                                                                         *)
(* dashboard holds the ids of the activities shown, pendingDeleteId,       *)
(* deletingActivityId, the timer handle in deleteIntentTimeout.current (0  *)
(* for null), the timers that were set and neither fired nor were cleared, *)
(* the DELETE requests in flight, and the log of what happened: clicks on  *)
(* delete buttons, timers that fired and requests that finished.           *)
(***************************************************************************)
\* clearTimeout(handle) on the timers that are set
clearTimeout(timers, handle) == {t \in timers : t.handle # handle}

\* resetDeleteIntent()
resetDeleteIntent(d) ==
    [d EXCEPT !.timers = IF d.deleteIntentTimeout # 0
                         THEN clearTimeout(@, d.deleteIntentTimeout) ELSE @,
              !.deleteIntentTimeout = 0,
              !.pendingDeleteId = NULL]

\* The mutant of ClickDelete: a running delete stops no click.
ClickDelete_whileDeleting(id) ==
    /\ id \in dashboard.activities
    /\ dashboard.deletingActivityId # id
    /\ Len(dashboard.log) < MaxEvents
    /\ \E d \in {[dashboard EXCEPT !.log = Append(@, [event |-> "click", id |-> id])]} :
       dashboard' =
          IF d.pendingDeleteId = id
          THEN [d EXCEPT !.deletingActivityId = id,
                         !.inFlight = Append(@, id)]
          ELSE [d EXCEPT !.timers =
                            (IF d.deleteIntentTimeout # 0
                             THEN clearTimeout(@, d.deleteIntentTimeout) ELSE @)
                            \cup {[handle |-> d.handles + 1, id |-> id]},
                         !.pendingDeleteId = id,
                         !.deleteIntentTimeout = d.handles + 1,
                         !.handles = @ + 1]
    /\ UNCHANGED catalogVars
    /\ UNCHANGED engineVars
    /\ UNCHANGED storageVars

\* A click on the delete button of an activity that is shown; the button is
\* disabled while deletingActivityId is that activity.  This is
\* handleDeleteActivityRequest(activity) up to its return or its fetch.
ClickDelete(id) ==
    /\ id \in dashboard.activities
    /\ dashboard.deletingActivityId # id
    /\ Len(dashboard.log) < MaxEvents
    /\ \E d \in {[dashboard EXCEPT !.log = Append(@, [event |-> "click", id |-> id])]} :
       dashboard' =
          IF d.deletingActivityId # NULL /\ d.deletingActivityId # id THEN d
          ELSE IF d.pendingDeleteId = id
          THEN [d EXCEPT !.deletingActivityId = id,
                         !.inFlight = Append(@, id)]
          ELSE [d EXCEPT !.timers =
                            (IF d.deleteIntentTimeout # 0
                             THEN clearTimeout(@, d.deleteIntentTimeout) ELSE @)
                            \cup {[handle |-> d.handles + 1, id |-> id]},
                         !.pendingDeleteId = id,
                         !.deleteIntentTimeout = d.handles + 1,
                         !.handles = @ + 1]
    /\ UNCHANGED catalogVars
    /\ UNCHANGED engineVars
    /\ UNCHANGED storageVars

\* Two seconds after it was set a timer fires: the callback of setTimeout.
TimerFires(timer) ==
    /\ timer \in dashboard.timers
    /\ Len(dashboard.log) < MaxEvents
    /\ dashboard' =
          [dashboard EXCEPT
              !.timers = @ \ {timer},
              !.pendingDeleteId = IF @ = timer.id THEN NULL ELSE @,
              !.deleteIntentTimeout = 0,
              !.log = Append(@, [event |-> "timer", id |-> timer.id])]
    /\ UNCHANGED catalogVars
    /\ UNCHANGED engineVars
    /\ UNCHANGED storageVars

\* The DELETE request that is i-th in flight is answered (ok: with a 2xx
\* status) or fails; handleDeleteActivityRequest goes on from its fetch.
DeleteResponds(i, ok) ==
    /\ i \in 1..Len(dashboard.inFlight)
    /\ Len(dashboard.log) < MaxEvents
    /\ \E id \in {dashboard.inFlight[i]} :
       dashboard' =
          resetDeleteIntent(
             [dashboard EXCEPT
                 !.inFlight = SubSeq(@, 1, i - 1) \o SubSeq(@, i + 1, Len(@)),
                 !.activities = IF ok THEN @ \ {id} ELSE @,
                 !.deletingActivityId = NULL,
                 !.log = Append(@, [event |-> IF ok THEN "deleted" ELSE "failed",
                                    id |-> id])])
    /\ UNCHANGED catalogVars
    /\ UNCHANGED engineVars
    /\ UNCHANGED storageVars

ListedIds == {"x", "y"}

InitOfDelete ==
    /\ InitEngine
    /\ InitCatalog
    /\ fs = RootMade /\ bucket = <<>> /\ driver = "local" /\ io = NoIo /\ env = LocalEnv
    /\ upstream = <<>>
    /\ dashboard = [activities |-> ListedIds, pendingDeleteId |-> NULL,
                    deletingActivityId |-> NULL, deleteIntentTimeout |-> 0,
                    timers |-> {}, handles |-> 0, inFlight |-> <<>>, log |-> <<>>]

NextDelete ==
    \/ \E id \in ListedIds : ClickDelete(id)
    \/ \E timer \in dashboard.timers : TimerFires(timer)
    \/ \E i \in 1..MaxEvents, ok \in BOOLEAN : DeleteResponds(i, ok)

SpecDelete == InitOfDelete /\ [][NextDelete]_vars

(***************************************************************************)
(* Properties of the sync engine                                           *)
(***************************************************************************)
\* A step of syncStravaActivities: the clock stands still and the outcome
\* left behind is a sync's.
SyncStep == now' = now /\ last'.op = "sync"

\* A completed sync that directly follows a completed sync (nothing else ran
\* in between and the upstream list never changes).
SecondSync == SyncStep /\ last.op = "sync" /\ last.ok /\ last'.ok

C2_RetryNeverReimports ==
    [][(SyncStep /\ last.op = "sync" /\ ~last.ok)
       => Range(last'.stored) \cap Range(last.stored) = {}]_vars

\* new is old with k ids that old does not hold put in front, cut at the tail
\* to cap ids, and cut only if it would be longer; oldIds is the set of old's ids.
KeptBehind(old, new, oldIds, k, cap) ==
    /\ Len(new) <= cap
    /\ \A i \in 1..k : new[i] \notin oldIds
    /\ Len(new) - k <= Len(old)
    /\ SubSeq(new, k + 1, Len(new)) = SubSeq(old, 1, Len(new) - k)
    /\ Len(new) - k < Len(old) => Len(new) = cap

PrependedAndCut(old, new, oldIds, cap) ==
    KeptBehind(old, new, oldIds, Cardinality({i \in 1..Len(new) : new[i] \notin oldIds}), cap)

\* C3: importedActivityIds never holds more than 500 ids; every step leaves
\* the ids it adds in front of the ids tracked before, keeps those in their
\* order, and drops ids only from the tail and only when the list is full.
C3_CapKeepsNewestInFront ==
    [][PrependedAndCut(stravaState.importedActivityIds,
                       stravaState'.importedActivityIds,
                       Range(stravaState.importedActivityIds), 500)]_vars

\* A sync filled importedActivityIds to the cap and dropped an id.
C3_Witness ==
    /\ last.op = "sync" /\ last.ok
    /\ Len(stravaState.importedActivityIds) = 500
    /\ last.imported > 0
    /\ last.dropped # {}

\* C4: no step (authorization, exchange, refresh, sync, failed or not) makes
\* the persisted lastActivityCursor smaller.
C4_CursorNeverDecreases ==
    [][stravaState'.lastActivityCursor >= stravaState.lastActivityCursor]_vars

\* A completed sync that was handed all four activities of the list (one
\* without start_date, one that starts below the cursor, one whose date does
\* not parse) by a provider ignoring `after`, with the cursor already set.
C4_Witness ==
    /\ last.op = "sync" /\ last.ok /\ last.after = "sync"
    /\ last.considered = 4
    /\ stravaState.lastActivityCursor = 20

\* C5 (as claimed): with a pending nonce stored, exchangeStravaCode called
\* with any state other than the nonce (null and "" included) fails with the
\* state-mismatch error, does not call the token endpoint and leaves the
\* stored state as it was.
C5_MismatchAlwaysRejected ==
    [][\A providedState \in ProvidedStates, response \in {"ok", "incomplete", "error"} :
          (/\ exchangeStravaCode(providedState, response, Lifetimes)
           /\ stravaState.pendingAuthState # NULL
           /\ providedState # stravaState.pendingAuthState)
          => (/\ last'.err = "StateMismatch"
              /\ ~last'.tokenCalled
              /\ stravaState' = stravaState)]_vars

\* C6: for a connected user, ensureValidTokens (run at the start of a sync)
\* calls the refresh endpoint exactly when expiresAt <= now + 60; without the
\* call the stored token triple is untouched and is what the caller gets;
\* after a call that succeeded the new triple is persisted and returned.
C6_RefreshExactlyWithinBuffer ==
    [][(SyncStep /\ ~NotConnected(stravaState)) =>
         LET triple(s) == <<s.accessToken, s.refreshToken, s.expiresAt>> IN
         /\ last'.refreshCalled <=> stravaState.expiresAt <= now + 60
         /\ ~last'.refreshCalled =>
               /\ triple(stravaState') = triple(stravaState)
               /\ last'.accessToken = stravaState.accessToken
               /\ provider' = provider
         /\ (last'.refreshCalled /\ last'.err # "RefreshFailed") =>
               /\ stravaState'.accessToken = provider.issued + 1
               /\ stravaState'.refreshToken = provider.issued + 1
               /\ stravaState'.expiresAt - now \in Lifetimes
               /\ last'.accessToken = stravaState'.accessToken
         /\ last'.err = "RefreshFailed" => stravaState' = stravaState]_vars

\* A sync at time 30 refreshed the token and went on with the new one, the
\* second triple the provider issued.
C6_Witness ==
    /\ last.op = "sync" /\ last.refreshCalled /\ last.err = ""
    /\ now = 30
    /\ last.accessToken = stravaState.accessToken
    /\ last.accessToken = 2

(***************************************************************************)
(* Properties of the catalog                                               *)
(***************************************************************************)
\* The batches stored so far, the latest first, each in the order of its inputs.
RECURSIVE LatestFirst(_)
LatestFirst(bs) ==
    IF Len(bs) = 0 THEN <<>> ELSE bs[Len(bs)] \o LatestFirst(SubSeq(bs, 1, Len(bs) - 1))

\* C9: the catalog that getActivities returns is the records of the latest
\* successful storeActivities call, then those of the call before it, and so
\* on, each call's records in the order of its inputs (a record standing for
\* the input whose name it bears); records deleted since are simply left out.
C9_CatalogIsBatchesLatestFirst ==
    LET catalog == getActivities(meta) IN
    [i \in 1..Len(catalog) |-> [id |-> catalog[i].id, name |-> catalog[i].name]]
       = LatestFirst(batches)

\* Two successful calls, of one and then of two entries, nothing deleted: the
\* listing holds the three records.
C9_Witness ==
    /\ Len(batches) = 2
    /\ Len(batches[1]) = 1 /\ Len(batches[2]) = 2
    /\ res.op = "get" /\ Len(res.returned) = 3
    /\ res.returned[1].name = "b" /\ res.returned[3].name = "a"

\* C10: a deleteActivity call that returns, returns true exactly when a
\* record of the catalog has the id; then that record alone is gone and the
\* others keep their order (also when the asset file was already missing);
\* when it returns false the metadata file and the asset files are untouched.
C10_DeleteRemovesExactlyOne ==
    [][(res'.op = "delete" /\ res'.ok) =>
         LET records == readRecords(meta)
             hits == {i \in 1..Len(records) : records[i].id = res'.id}
         IN /\ res'.returned <=> hits # {}
            /\ res'.returned =>
                  /\ readRecords(meta') = SelectSeq(records, LAMBDA r : r.id # res'.id)
                  /\ Len(readRecords(meta')) = Len(records) - 1
                  /\ assets' = assets \ {res'.id}
            /\ ~res'.returned => (meta' = meta /\ assets' = assets)]_vars

\* A record between two others was deleted after its asset file had gone.
C10_Witness ==
    /\ res.op = "delete" /\ res.ok /\ res.returned /\ res.enoent
    /\ Len(readRecords(meta)) = 2
    /\ readRecords(meta)[1].id > res.id
    /\ readRecords(meta)[2].id < res.id

\* C11: no two records of the catalog have the same id, and every record a
\* step (an upload, a deletion or a sync) adds to the catalog has an id that
\* was never generated before, so no record before it ever had it.
C11_RecordIdsUnique ==
    [][LET old == readRecords(meta)
           new == readRecords(meta')
       IN /\ \A i, j \in 1..Len(new) : new[i].id = new[j].id => i = j
          /\ \A i \in 1..Len(new) :
                new[i] \notin Range(old) => new[i].id \notin 0..nextId]_vars

\* A sync appended a record to a catalog that holds an uploaded record and
\* has lost a record to a deletion.
C11_Witness ==
    /\ last.op = "sync" /\ last.ok /\ last.imported > 0
    /\ res.op = "delete" /\ res.returned
    /\ Len(readRecords(meta)) >= 2
    /\ \E i \in 1..Len(readRecords(meta)) : readRecords(meta)[i].name = "a"

\* What decodePoints has to return for points: as many points, each
\* coordinate Math.round(value * 1e5) / 1e5.
Rounded(points) ==
    [i \in 1..Len(points) |->
        <<Num(MathRound(points[i][1])), Num(MathRound(points[i][2]))>>]

\* The deltas encodePoints computes for points: each rounded coordinate less
\* the one before it, the first less 0.
Deltas(points) ==
    UNION { { MathRound(points[i][c])
                 - (IF i = 1 THEN 0 ELSE MathRound(points[i - 1][c])) : c \in 1..2 }
            : i \in 1..Len(points) }

\* C12 (as claimed): for every sequence of points whatever, decoding what
\* encodePoints returns gives as many points, each coordinate the original
\* one rounded to 1e-5.
C12_RoundTripForAnyInput ==
    track.step = "decoded" => track.decoded = Rounded(track.points)

\* C12 (amended): the same for every sequence of points whose deltas all lie
\* from -2^30 up to but not including 2^30, as the deltas of latitudes in
\* -90..90 and longitudes in -180..180 do.
C12_RoundTripWithin30Bits ==
    (/\ track.step = "decoded"
     /\ \A delta \in Deltas(track.points) : -TwoTo30 <= delta /\ delta < TwoTo30)
       => track.decoded = Rounded(track.points)

\* A track from 90 N 180 W to just south of the equator at 180 E came back
\* rounded: both deltas of the second point are negative then positive and
\* cross zero.
C12_Witness ==
    /\ track.step = "decoded"
    /\ track.points = << <<Coord(9000000, 0), Coord(-18000000, 0)>>,
                         <<Coord(-1, 5), Coord(18000000, 0)>> >>
    /\ track.decoded = << <<Num(9000000), Num(-18000000)>>,
                          <<Num(0), Num(18000000)>> >>
    /\ Len(track.encoded) > 8

\* Call c writes the metadata file in this step.
Writes(c) ==
    \/ calls[c].op = "store" /\ calls[c].step = "mapped" /\ calls'[c] = Idle
    \/ calls[c].op = "delete" /\ calls[c].step = "read" /\ calls'[c].step = "written"

\* C14: the last write wins.  Whenever a storeActivities or deleteActivity
\* call writes the metadata file, the catalog becomes its own change put on
\* the records it read at its start (its new records in front of them, or
\* they without the record it deletes), whatever other calls have written
\* since; so two storeActivities calls can overlap in a way that leaves the
\* records of one out of the catalog although it returned them (C14_Witness).
C14_LastWriteWins ==
    [][\A c \in DOMAIN calls :
          Writes(c) =>
             readRecords(meta') =
                IF calls[c].op = "store"
                THEN calls[c].newRecords \o calls[c].existing
                ELSE SelectSeq(calls[c].records, LAMBDA r : r.id # calls[c].id)]_vars

\* Two storeActivities calls have both returned their records as stored, no
\* call is in flight and none has deleted anything (the asset files are all
\* there), and the records the first call returned are not in the catalog.
C14_Witness ==
    /\ Len(batches) = 2
    /\ \A c \in DOMAIN calls : calls[c] = Idle
    /\ res.op = "store" /\ res.ok
    /\ assets = 1..nextId
    /\ \A i \in 1..Len(batches[1]) :
          /\ batches[1][i].id \in assets
          /\ \A j \in 1..Len(readRecords(meta)) :
                readRecords(meta)[j].id # batches[1][i].id

(***************************************************************************)
(* Properties of the storage                                               *)
(***************************************************************************)
\* What a read of key returns from the storage as it stands (NULL: the read
\* fails), the bucket's endpoint serving.
Stored(f, bk, key) == readStorageFile(driver, f, bk, key, "serve").content

\* The object a key names: the file of the Local driver, the object key of
\* the Bucket driver.
Address(key) == IF driver = "local" THEN toLocalPath(key) ELSE buildBucketKey(key)

\* C7 (as claimed): under either driver, with the endpoint serving, a read of
\* a key that does not exist fails with ENOENT, a delete of a key that does
\* not exist completes without error, and a delete that completes leaves the
\* key absent.
C7_MissingKeyReadAndDelete ==
    [][io'.answer = "serve" =>
         /\ (io'.op = "read" /\ Stored(fs, bucket, io'.key) = NULL)
               => io'.err = "ENOENT"
         /\ (io'.op = "delete" /\ Stored(fs, bucket, io'.key) = NULL)
               => io'.ok
         /\ (io'.op = "delete" /\ io'.ok)
               => Stored(fs', bucket', io'.key) = NULL]_vars

\* path is the storage root or lies below it.
UnderRoot(path) ==
    Len(path) >= Len(STORAGE_ROOT) /\ SubSeq(path, 1, Len(STORAGE_ROOT)) = STORAGE_ROOT

\* C13 (as claimed): whatever key the Local driver's read, write or delete is
\* handed, the path it reads, writes or unlinks lies under the storage root
\* and nothing outside the root changes; a key with a segment "." or ".." is
\* rejected: the call fails and changes nothing.
C13_LocalDriverStaysUnderRoot ==
    [][(driver = "local" /\ io'.op \in {"read", "write", "delete"}) =>
         /\ UnderRoot(io'.path)
         /\ \A path \in DOMAIN fs \cup DOMAIN fs' :
               ~UnderRoot(path) => (/\ path \in DOMAIN fs /\ path \in DOMAIN fs'
                                    /\ fs'[path] = fs[path])
         /\ (\E i \in 1..Len(io'.key) : io'.key[i] \in {".", ".."})
               => (~io'.ok /\ fs' = fs)]_vars

\* C8: under either driver, after a write of content b to key k that
\* succeeded, a read of k returns b (whatever k held before, and whether or
\* not its directories were there), and every key that names another object
\* reads as it did before the write.
C8_WriteCreatesOrReplaces ==
    [][(io'.op = "write" /\ io'.ok) =>
         /\ Stored(fs', bucket', io'.key) = io'.content
         /\ \A other \in StorageKeys :
               Address(other) # Address(io'.key)
                  => Stored(fs', bucket', other) = Stored(fs, bucket, other)]_vars

\* The Local driver replaced the content of a key below a directory, with
\* another key holding content of its own.
C8_Witness ==
    /\ driver = "local"
    /\ io.op = "write" /\ io.ok
    /\ io.key = <<"a", "b">>
    /\ io.before \notin {NULL, io.content}
    /\ Stored(fs, bucket, <<"a", "b">>) = io.content
    /\ Stored(fs, bucket, <<"b">>) # NULL

\* status is a 2xx status.
Is2xx(status) == status >= 200 /\ status <= 299

\* The call that left io behind failed with an error, other than the
\* not-found error, whose message carries the status and the body of the
\* response.
CarriesResponse(o) ==
    /\ ~o.ok
    /\ o.err # "ENOENT"
    /\ o.status = o.response.status
    /\ o.text = o.response.body

\* C15: under the Bucket driver, whatever status the endpoint answers: a GET
\* answered 404 fails with ENOENT; a GET or PUT answered any other non-2xx
\* status fails with an error carrying the status and the response body; a
\* DELETE answered 404 or 2xx succeeds and any other status is an error
\* carrying status and body; only a 2xx response, or a 404 to a DELETE, is
\* reported as success.
C15_BucketResponseMapping ==
    [][(driver = "bucket" /\ io'.op \in {"read", "write", "delete"}
                          /\ io'.response.sent) =>
         LET status == io'.response.status IN
         /\ (io'.op = "read" /\ status = 404) => io'.err = "ENOENT"
         /\ (io'.op = "read" /\ status # 404 /\ ~Is2xx(status))
               => CarriesResponse(io')
         /\ (io'.op = "write" /\ ~Is2xx(status)) => CarriesResponse(io')
         /\ (io'.op = "delete" /\ (status = 404 \/ Is2xx(status))) => io'.ok
         /\ (io'.op = "delete" /\ status # 404 /\ ~Is2xx(status))
               => CarriesResponse(io')
         /\ io'.ok => (Is2xx(status) \/ (io'.op = "delete" /\ status = 404))]_vars

\* A DELETE answered 404 has succeeded, with objects in the bucket.
C15_Witness ==
    /\ driver = "bucket"
    /\ io.op = "delete"
    /\ io.response.sent
    /\ io.response.status = 404
    /\ io.ok
    /\ bucket # <<>>

\* A setting is present: the variable is set, and not to nothing.
Present(value) == value # NULL /\ value # ""

\* The bucket settings of process.env as storage.ts takes them: the access
\* key id and the secret fall back to the AWS_ variables when not set.
NameOf(e) == e.STORAGE_BUCKET_NAME
KeyIdOf(e) ==
    IF e.STORAGE_BUCKET_ACCESS_KEY_ID # NULL
    THEN e.STORAGE_BUCKET_ACCESS_KEY_ID ELSE e.AWS_ACCESS_KEY_ID
SecretOf(e) ==
    IF e.STORAGE_BUCKET_SECRET_ACCESS_KEY # NULL
    THEN e.STORAGE_BUCKET_SECRET_ACCESS_KEY ELSE e.AWS_SECRET_ACCESS_KEY

ConfigurationErrors == {"MissingBucketName", "MissingCredentials"}

\* C16: when the Bucket driver is selected and the bucket name, the access
\* key id or the secret access key is missing, every read, write and delete
\* fails with a configuration error, no HTTP request is sent and nothing is
\* stored or removed.
C16_MissingBucketSettingsFailBeforeRequest ==
    [][(/\ driver = "bucket"
        /\ io'.op \in {"read", "write", "delete"}
        /\ (~Present(NameOf(env)) \/ ~Present(KeyIdOf(env))
                 \/ ~Present(SecretOf(env)))) =>
         /\ ~io'.ok
         /\ io'.err \in ConfigurationErrors
         /\ ~io'.response.sent
         /\ bucket' = bucket
         /\ fs' = fs]_vars

\* The Bucket driver, selected by STORAGE_DRIVER with the secret set to
\* nothing, has failed a write before any request.
C16_Witness ==
    /\ driver = "bucket"
    /\ Present(NameOf(env))
    /\ Present(KeyIdOf(env))
    /\ SecretOf(env) = ""
    /\ io.op = "write"
    /\ io.err = "MissingCredentials"
    /\ ~io.response.sent

\* C17: whatever the settings, STORAGE_DRIVER = local or bucket in any letter
\* case selects that driver; with no STORAGE_DRIVER (not set, or set to
\* nothing) the Bucket driver is selected exactly when bucket name, access
\* key id and secret access key are all present; with any other
\* STORAGE_DRIVER the Local driver is selected.
C17_DriverSelection ==
    LET chosen == env.STORAGE_DRIVER IN
    /\ chosen \in {"local", "Local", "LOCAL"} => driver = "local"
    /\ chosen \in {"bucket", "Bucket", "BUCKET"} => driver = "bucket"
    /\ chosen \in {NULL, ""} =>
          (driver = "bucket" <=> (/\ Present(NameOf(env))
                                  /\ Present(KeyIdOf(env))
                                  /\ Present(SecretOf(env))))
    /\ chosen \notin {"local", "Local", "LOCAL", "bucket", "Bucket", "BUCKET",
                       NULL, ""} => driver = "local"

\* STORAGE_DRIVER = LOCAL with a bucket fully set up: a write went to the
\* file system and the bucket is empty.
C17_Witness ==
    /\ env.STORAGE_DRIVER = "LOCAL"
    /\ Present(NameOf(env))
    /\ Present(KeyIdOf(env))
    /\ Present(SecretOf(env))
    /\ driver = "local"
    /\ io.op = "write"
    /\ io.ok
    /\ bucket = <<>>
    /\ toLocalPath(<<"a">>) \in DOMAIN fs

\* The step ran an engine operation op: the clock stands still and the
\* outcome left behind is op's.
EngineStep(op) == now' = now /\ last'.op = op

\* The provider's answer lacks the access token, the refresh token or the
\* expiry.
LacksToken(payload) ==
    payload.access_token = 0 \/ payload.refresh_token = 0 \/ payload.expires_at = 0

\* C18: an exchangeStravaCode that succeeds stores the access token, refresh
\* token, expiry and athlete the provider returned, sets pendingAuthState to
\* null and leaves importedActivityIds, lastActivityCursor and lastSyncSummary
\* as they were; one whose answer from the provider lacks the access token,
\* the refresh token or the expiry fails, and a failed one leaves the stored
\* state, pendingAuthState included, unchanged.
C18_ExchangeFrame ==
    [][EngineStep("exchange") =>
         /\ last'.ok =>
               stravaState' =
                  [accessToken |-> last'.payload.access_token,
                   refreshToken |-> last'.payload.refresh_token,
                   expiresAt |-> last'.payload.expires_at,
                   athlete |-> last'.payload.athlete,
                   pendingAuthState |-> NULL,
                   importedActivityIds |-> stravaState.importedActivityIds,
                   lastActivityCursor |-> stravaState.lastActivityCursor,
                   lastSyncSummary |-> stravaState.lastSyncSummary]
         /\ (last'.tokenCalled /\ last'.err # "TokenEndpoint"
                 /\ LacksToken(last'.payload)) => ~last'.ok
         /\ last'.ok => (last'.tokenCalled /\ ~LacksToken(last'.payload))
         /\ ~last'.ok => stravaState' = stravaState]_vars

\* A user with imported activities, a cursor and a pending nonce has
\* connected again: the new tokens are stored, the nonce is gone, and the
\* dedup list and the cursor are still there.
C18_Witness ==
    /\ last.op = "exchange"
    /\ last.ok
    /\ last.payload.access_token = 2
    /\ stravaState.accessToken = 2
    /\ stravaState.pendingAuthState = NULL
    /\ provider.nonces > 0
    /\ stravaState.importedActivityIds # <<>>
    /\ stravaState.lastActivityCursor # 0

\* The provider app credentials are not all configured.
Unconfigured(e) ==
    \/ ~Present(e.STRAVA_CLIENT_ID)
    \/ ~Present(e.STRAVA_CLIENT_SECRET)
    \/ ~Present(e.STRAVA_REDIRECT_URI)

\* C19: with the provider app configured, every buildAuthorizeUrl returns;
\* it generates a nonce that no earlier call generated, stores it as
\* pendingAuthState in place of the earlier one, returns a URL whose state
\* parameter is the stored pendingAuthState, and changes no other field of
\* the stored state.
C19_AuthorizeUrlFrame ==
    [][(EngineStep("authorize") /\ ~Unconfigured(env)) =>
         /\ last'.ok
         /\ stravaState'.pendingAuthState # NULL
         /\ stravaState'.pendingAuthState # stravaState.pendingAuthState
         /\ stravaState'.pendingAuthState \notin {Nonces[i] : i \in 1..provider.nonces}
         /\ last'.url.state = stravaState'.pendingAuthState
         /\ [stravaState' EXCEPT !.pendingAuthState = stravaState.pendingAuthState]
               = stravaState]_vars

\* A connected user with imported activities and a pending nonce has asked
\* for a second authorize URL: the second nonce is stored, the tokens, the
\* dedup list and the cursor are still there.
C19_Witness ==
    /\ last.op = "authorize"
    /\ last.ok
    /\ provider.nonces = 2
    /\ stravaState.pendingAuthState = Nonces[2]
    /\ last.url.state = Nonces[2]
    /\ ~NotConnected(stravaState)
    /\ stravaState.importedActivityIds # <<>>
    /\ stravaState.lastActivityCursor # 0

\* C20: while the provider app credentials are not all configured,
\* buildAuthorizeUrl, exchangeStravaCode and syncStravaActivities each fail
\* with a configuration error without having read or written the stored
\* state and without a call to the provider, and the user stays without
\* pending nonce and without tokens.
C20_UnconfiguredFailsBeforeIo ==
    [][Unconfigured(env) =>
         /\ \A op \in {"authorize", "exchange", "sync"} :
               EngineStep(op) =>
                  /\ ~last'.ok
                  /\ last'.err \in {"MissingStravaCredentials", "NotConfigured"}
                  /\ ~last'.stateRead
                  /\ ~last'.tokenCalled
                  /\ ~last'.refreshCalled
                  /\ ~last'.listCalled
         /\ stravaState' = stravaState
         /\ stravaState'.pendingAuthState = NULL
         /\ NotConnected(stravaState')
         /\ provider' = provider]_vars

\* With the client secret set to nothing, a sync has failed with the
\* configuration error after an authorize and an exchange did.
C20_Witness ==
    /\ env.STRAVA_CLIENT_SECRET = ""
    /\ Present(env.STRAVA_CLIENT_ID)
    /\ Present(env.STRAVA_REDIRECT_URI)
    /\ last.op = "sync"
    /\ last.err = "MissingStravaCredentials"
    /\ last.after = "other"
    /\ stravaState = EmptyState

\* AWS Signature Version 4, from its definition: the Authorization header
\* for a request with the given method, canonical URI, empty query, headers
\* (names in ascending order, with their values) and payload hash.
SigV4CanonicalHeaders(names, values) ==
    IF Len(names) = 0 THEN <<>>
    ELSE Join([i \in 1..Len(names) |-> <<names[i], ":">> \o values[names[i]] \o <<"\n">>],
              <<>>)
SigV4SignedHeaders(names) ==
    Join([i \in 1..Len(names) |-> <<names[i]>>], <<";">>)
SigV4Scope(date, region) == <<date, "/", region, "/", "s3", "/", "aws4_request">>
SigV4Authorization(accessKey, secretKey, region, date, time, method, uri, names,
                   values, payloadHash) ==
    LET amzDate == <<date, "T", time, "Z">>
        canonicalRequest ==
            <<method, "\n">> \o uri \o <<"\n">> \o <<"\n">>
               \o SigV4CanonicalHeaders(names, values) \o <<"\n">>
               \o SigV4SignedHeaders(names) \o <<"\n">> \o payloadHash
        stringToSign ==
            <<"AWS4-HMAC-SHA256", "\n">> \o amzDate \o <<"\n">>
               \o SigV4Scope(date, region) \o <<"\n">> \o sha256(canonicalRequest)
        kDate == Hmac(<<"AWS4", secretKey>>, <<date>>)
        kRegion == Hmac(kDate, <<region>>)
        kService == Hmac(kRegion, <<"s3">>)
        kSigning == Hmac(kService, <<"aws4_request">>)
    IN <<"AWS4-HMAC-SHA256 Credential=", accessKey, "/">> \o SigV4Scope(date, region)
          \o <<", SignedHeaders=">> \o SigV4SignedHeaders(names)
          \o <<", Signature=">> \o <<"hex(">> \o Hmac(kSigning, stringToSign) \o <<")">>

\* The inputs of the signer in a step of the Bucket driver that sent a
\* request.
RegionOf(e) ==
    IF e.STORAGE_BUCKET_REGION # NULL THEN e.STORAGE_BUCKET_REGION
    ELSE IF e.AWS_REGION # NULL THEN e.AWS_REGION ELSE "us-east-1"
TokenOf(e) ==
    IF e.STORAGE_BUCKET_SESSION_TOKEN # NULL THEN e.STORAGE_BUCKET_SESSION_TOKEN
    ELSE e.AWS_SESSION_TOKEN
MethodOf(op) ==
    CASE op = "read" -> "GET" [] op = "write" -> "PUT" [] OTHER -> "DELETE"
Sent(o) == o.op \in {"read", "write", "delete"} /\ o.response.sent

\* C21: for every request the Bucket driver sends, the Authorization header
\* is the one AWS Signature Version 4 defines for the access key, secret key,
\* region, date, method, host, path of bucket and object key, signed headers
\* and payload (empty for GET and DELETE): Credential=key/date/region/s3/
\* aws4_request, the sorted signed header names, and the hex HMAC of the
\* string to sign under the key derived by the kDate, kRegion, kService,
\* kSigning chain.
C21_SignerProducesSigV4 ==
    [][(driver = "bucket" /\ Sent(io')) =>
         LET request == io'.request
             names == SortNames({"host", "x-amz-date", "x-amz-content-sha256"}
                         \cup (IF Present(TokenOf(env)) THEN {"x-amz-security-token"}
                               ELSE {})
                         \cup (IF "content-type" \in DOMAIN request.headers
                               THEN {"content-type"} ELSE {}))
             payloadHash == sha256(IF io'.op = "write" THEN <<io'.content>> ELSE <<>>)
             values == [name \in Range(names) |->
                          CASE name = "host" -> UrlHost(request.url)
                            [] name = "x-amz-date" ->
                                 <<AmzDates[now].date, "T", AmzDates[now].time, "Z">>
                            [] name = "x-amz-content-sha256" -> payloadHash
                            [] name = "x-amz-security-token" -> <<TokenOf(env)>>
                            [] OTHER -> request.headers["content-type"]]
             uri == PathText((IF usePathStyle(env) THEN <<NameOf(env)>> ELSE <<>>)
                                \o buildBucketKey(io'.key))
         IN request.authorization
               = SigV4Authorization(KeyIdOf(env), SecretOf(env), RegionOf(env),
                                    AmzDates[now].date, AmzDates[now].time,
                                    MethodOf(io'.op), uri, names, values,
                                    payloadHash)]_vars

\* A GET of the key "a" was signed for the default region on 1 January 1970:
\* the header names the credential scope and the three signed headers.
C21_Witness ==
    /\ driver = "bucket"
    /\ io.op = "read"
    /\ io.key = <<"a">>
    /\ io.response.sent
    /\ RegionOf(env) = "us-east-1"
    /\ TokenOf(env) = NULL
    /\ SubSeq(io.request.authorization, 1, 17) =
          <<"AWS4-HMAC-SHA256 Credential=", "key", "/", "19700101", "/", "us-east-1",
            "/", "s3", "/", "aws4_request", ", SignedHeaders=", "host", ";",
            "x-amz-content-sha256", ";", "x-amz-date", ", Signature=">>

\* C27 (as claimed): for every request the Bucket driver sends, whatever the
\* key and the prefix: the signed header names are host,
\* x-amz-content-sha256 and x-amz-date, with x-amz-security-token and
\* content-type when present, in ascending order; each of them but host is
\* sent with the value that was signed; the signed host is the host of the
\* request URL; and the canonical URI is the path of the request URL.
C27_SignedIsSent ==
    [][(driver = "bucket" /\ Sent(io')) =>
         LET request == io'.request
             names == {"host", "x-amz-date", "x-amz-content-sha256"}
                         \cup (IF Present(TokenOf(env)) THEN {"x-amz-security-token"}
                               ELSE {})
                         \cup (IF "content-type" \in DOMAIN request.headers
                               THEN {"content-type"} ELSE {})
         IN /\ request.signedNames = SortNames(names)
            /\ \A name \in names \ {"host"} :
                  /\ name \in DOMAIN request.headers
                  /\ request.headers[name] = request.signedValues[name]
            /\ request.signedValues["host"] = UrlHost(request.url)
            /\ request.canonicalUri = request.url.pathname]_vars

\* C28 (as claimed): under either driver, with the endpoint serving, a read,
\* a write and a delete of a key with slashes in front address the object of
\* the key without them: a read that succeeds returns what is stored under
\* the bare key, a write that succeeds is read back under the bare key, and
\* after a delete that succeeds a read of the bare key finds nothing.
C28_LeadingSlashesSameObject ==
    [][(io'.op \in {"read", "write", "delete"} /\ io'.answer = "serve" /\ io'.ok) =>
         LET bare == normalizeKey(io'.key) IN
         /\ io'.op = "read" => io'.content = Stored(fs, bucket, bare)
         /\ io'.op = "write" => Stored(fs', bucket', bare) = io'.content
         /\ io'.op = "delete" => Stored(fs', bucket', bare) = NULL]_vars


\* C22: getActivities returns an empty list only when the metadata file is
\* missing (or holds an empty array); on a metadata file that exists and is
\* unreadable or not a JSON array, getActivities fails and no call replaces
\* the file.
C22_MetadataReadFailsUnlessArray ==
    [][/\ (res'.op = "get" /\ res'.ok /\ res'.returned = <<>>)
           => (~meta.exists \/ (meta.content = "array" /\ meta.records = <<>>))
       /\ (meta.exists /\ meta.content # "array")
           => /\ meta' = meta
              /\ res'.op = "get" => ~res'.ok]_vars

\* What a sync that finds the user not connected does: it fails with the
\* not-connected error, calls no provider endpoint, leaves the stored state
\* and the catalog alone, and the sync route answers 400.
NotConnectedSync ==
    /\ ~last'.ok
    /\ last'.err = "NotConnected"
    /\ ~last'.refreshCalled /\ ~last'.listCalled /\ ~last'.tokenCalled
    /\ provider' = provider
    /\ stravaState' = stravaState
    /\ <<meta', assets', nextId'>> = <<meta, assets, nextId>>
    /\ POST(last') = 400

\* C23 as stated: whenever the stored state lacks the access token, the
\* refresh token or the expiry, syncStravaActivities fails as not connected
\* without provider calls and without changes, the sync route answers 400,
\* and it answers 500 to every other failure.
C23_NotConnectedSyncIs400 ==
    [][EngineStep("sync") =>
         /\ NotConnected(stravaState) => NotConnectedSync
         /\ (~last'.ok /\ ~NotConnected(stravaState)) => POST(last') = 500]_vars

\* C23 amended: the same in a process that has the provider app credentials;
\* without them every sync fails before the stored state is read and the
\* route answers 500.
C23_ConfiguredNotConnectedSyncIs400 ==
    [][EngineStep("sync") =>
         /\ (NotConnected(stravaState) /\ ~Unconfigured(env)) => NotConnectedSync
         /\ (~last'.ok /\ (~NotConnected(stravaState) \/ Unconfigured(env)))
               => POST(last') = 500]_vars

\* A sync of a configured process found the user not connected, the stored
\* state holding the nonce of an authorization that was started.
C23_Witness ==
    /\ last.op = "sync"
    /\ last.err = "NotConnected"
    /\ last.stateRead
    /\ ~Unconfigured(env)
    /\ NotConnected(stravaState)
    /\ stravaState.pendingAuthState # NULL
    /\ POST(last) = 400

\* The sum of the lengths of the answers to the requests.
RECURSIVE Answered(_)
Answered(requests) ==
    IF requests = <<>> THEN 0
    ELSE requests[1].answered + Answered(Tail(requests))

\* C24: one sync requests the pages 1, 2, 3 in that order, each with the
\* cursor stored at its start as `after` and per_page 50; it stops after the
\* first page that is empty or shorter than 50, requests at most 3 pages and
\* considers what the pages held, at most 150 activities.
C24_PagesInOrder ==
    [][(EngineStep("sync") /\ last'.ok) =>
         LET requests == last'.requests IN
         /\ Len(requests) \in 1..3
         /\ \A i \in 1..Len(requests) :
               /\ requests[i].page = i
               /\ requests[i].after = stravaState.lastActivityCursor
               /\ requests[i].per_page = 50
               /\ i < Len(requests) => requests[i].answered = 50
         /\ Len(requests) < 3 => requests[Len(requests)].answered < 50
         /\ last'.considered = Answered(requests)
         /\ last'.considered <= 150]_vars

\* A sync asked for three full pages of a list longer than 150 activities.
C24_Witness ==
    /\ last.op = "sync"
    /\ last.ok
    /\ Len(last.requests) = 3
    /\ last.requests[3].answered = 50
    /\ last.considered = 150
    /\ Len(upstream) > 150

\* The activities of the upstream list that a sync fetched.
FetchedOf(out) == SelectSeq(upstream, LAMBDA a : a.id \in Range(out.fetched))

\* The sport type is in the lookup table and the geometry is present and
\* decodes to at least 2 points.
Importable(a) ==
    /\ a.sport \in DOMAIN STRAVA_SPORT_MAP
    /\ a.hasPolyline
    /\ a.points >= 2

\* C25: a completed sync stores exactly the fetched activities whose id is
\* not in importedActivityIds, whose sport is in the table and whose geometry
\* has at least 2 points; the summary it records has considered = activities
\* fetched and imported = records stored, imported <= considered; and the ids
\* it adds to importedActivityIds are the ids of the activities it stored.
C25_StoredExactlyTheEligible ==
    [][(SyncStep /\ last'.ok) =>
         LET eligible ==
                 {a \in Range(FetchedOf(last')) :
                     /\ a.id \notin Range(stravaState.importedActivityIds)
                     /\ Importable(a)}
             summary == stravaState'.lastSyncSummary
         IN /\ Range(last'.stored) = {<<"strava", a.id>> : a \in eligible}
            /\ Len(last'.stored) = Cardinality(eligible)
            /\ summary.considered = Len(last'.fetched)
            /\ summary.imported = Len(last'.stored)
            /\ summary.imported <= summary.considered
            /\ Range(stravaState'.importedActivityIds)
                  \ Range(stravaState.importedActivityIds)
                = {a.id : a \in eligible}]_vars

\* The largest of a set of numbers.
Largest(S) == CHOOSE x \in S : \A y \in S : y <= x

\* The start times, in seconds, of the activities whose start_date reads as
\* a date.
StartTimes(activities) ==
    {activities[i].t : i \in {j \in 1..Len(activities) : activities[j].date = "ok"}}

\* C26: after a completed sync the stored lastActivityCursor is the largest
\* of the cursor stored at its start and the start times of all activities
\* it fetched, whatever became of each of them.
C26_CursorIsLatestFetched ==
    [][(SyncStep /\ last'.ok) =>
         \A honor \in BOOLEAN :
            LET activities == fetchRecentActivities(stravaState.lastActivityCursor, honor)
            IN last'.fetched = [i \in 1..Len(activities) |-> activities[i].id]
               => stravaState'.lastActivityCursor =
                     Largest({stravaState.lastActivityCursor} \cup StartTimes(activities))]_vars

\* The provider ids of the catalog records that syncs stored, record by record.
SyncedIds ==
    LET records == SelectSeq(readRecords(meta), LAMBDA r : r.fileName[1] = "strava")
    IN [i \in 1..Len(records) |-> records[i].fileName[2]]

\* C29: when two syncStravaActivities calls of a user have both read the
\* stored state before either wrote it, the catalog still holds each provider
\* activity at most once; and once no call is running, importedActivityIds
\* holds the id of every activity the syncs stored.
C29_OverlappingSyncsStoreOnce ==
    /\ (\A c \in Callers : calls[c].op = "sync" /\ ~calls[c].wrote)
          => Cardinality(Range(SyncedIds)) = Len(SyncedIds)
    /\ (\A c \in Callers : calls[c] = Idle)
          => Range(SyncedIds) \subseteq Range(stravaState.importedActivityIds)

\* C30: once the user is connected, every write of the stored state leaves
\* the user connected, with tokens at least as new as the ones stored before,
\* and getStravaStatus reports connected.
C30_TokensNeverGoBack ==
    [][~NotConnected(stravaState) =>
         /\ ~NotConnected(stravaState')
         /\ stravaState'.accessToken >= stravaState.accessToken
         /\ stravaState'.refreshToken >= stravaState.refreshToken
         /\ getStravaStatus(stravaState', env).connected]_vars

\* No value occurs twice in the sequence.
NoRepeat(seq) == Cardinality(Range(seq)) = Len(seq)

\* C31: a sync whose pages hold an activity id more than once stores that
\* activity at most once and adds its id to importedActivityIds at most
\* once; after any sequence of syncs importedActivityIds holds no id twice.
C31_DuplicateIdsStoredOnce ==
    [][SyncStep =>
         /\ NoRepeat(last'.stored)
         /\ NoRepeat(stravaState'.importedActivityIds)
         /\ last'.ok => \A id \in Range(last'.fetched) \ {NaN} :
               Cardinality({i \in 1..Len(last'.stored) :
                               last'.stored[i] = <<"strava", id>>}) <= 1]_vars

\* A completed sync was handed the same id on two pages, stored its activity
\* once and tracks the id.
C31_Witness ==
    /\ last.op = "sync" /\ last.ok
    /\ last.considered = ShiftedLen
    /\ ~NoRepeat(last.fetched)
    /\ last.imported = ShiftedLen - 1
    /\ Len(stravaState.importedActivityIds) = ShiftedLen - 1

\* The asset paths that the records of the catalog refer to.
ReferencedAssets(m) == {readRecords(m)[i].geojsonPath : i \in 1..Len(readRecords(m))}

\* C32: storeActivities and deleteActivity, failing or not, keep the asset
\* files of the user equal to the asset paths its records refer to; a failed
\* storeActivities leaves the metadata and the asset files as they were.
C32_AssetsMatchRecords ==
    [][(res' # res /\ res'.op \in {"store", "delete"}
          /\ assets = ReferencedAssets(meta))
       => /\ assets' = ReferencedAssets(meta')
          /\ (res'.op = "store" /\ ~res'.ok) => (meta' = meta /\ assets' = assets)]_vars

\* Every upstream activity with a mapped sport and a geometry of at least 2
\* points has a catalog record.
CatalogComplete ==
    \A a \in Range(upstream) :
        Importable(a) =>
           \E i \in 1..Len(readRecords(meta)) :
               readRecords(meta)[i].fileName = <<"strava", a.id>>

\* C33: against a fixed upstream list, syncs called again and again reach a
\* state from which on every importable upstream activity has a catalog
\* record and every sync imports 0 activities.
C33_SyncsConverge ==
    /\ <>[]CatalogComplete
    /\ <>[][SyncStep => last'.imported = 0]_vars

\* C34: decodePoints terminates on every string: every round of decodeValue
\* moves the index on by one, so every call of decodeValue advances it by at
\* least one; a read past the end of the string ends the group being read;
\* the index, counted from 1, never exceeds the length by more than three
\* (two reads past the end); and the call returns,
\* with the points that decodePoints gives.
C34_DecodePointsTerminates ==
    /\ [][track'.index # track.index =>
             /\ track'.index = track.index + 1
             /\ track.index > Len(track.encoded) => ~track'.inValue]_vars
    /\ [][track'.inValue \/ track'.half # track.half
             => track'.index > track.index]_vars
    /\ [][/\ track'.index <= Len(track.encoded) + 3
          /\ track'.step = "decoded"
                => track'.decoded = decodePoints(track.encoded)]_vars
    /\ <>(track.step = "decoded")

\* decodePoints returned for a string whose last group is cut short and
\* whose second value is missing, having read past its end.
C34_Witness ==
    /\ track.step = "decoded"
    /\ track.encoded = <<32, 126, 95>>
    /\ track.index = Len(track.encoded) + 2
    /\ Len(track.decoded) = 1

\* What the claim counts as an entry to store: an object with at least two
\* points whose latitude and longitude are finite numbers, a sport of
\* SPORT_OPTIONS and a rawGpx that is not blank.
Qualifies(entry) ==
    /\ entry.json = "object"
    /\ entry.points.isArray
    /\ Cardinality({i \in 1..Len(entry.points.items) :
                      /\ entry.points.items[i].pair
                      /\ ToNumber(entry.points.items[i].lat).finite
                      /\ ToNumber(entry.points.items[i].lng).finite}) >= 2
    /\ entry.sport \in VALID_SPORTS
    /\ entry.rawGpx \notin {NULL, "", " "}

\* The entries of a body that qualify, in their order.
Qualifying(body) ==
    IF body.form = "array" THEN SelectSeq(body.items, Qualifies) ELSE <<>>

\* C35: a POST of a signed-in user calls storeActivities with exactly the
\* qualifying entries of the body, in their order; when there is none (the
\* body is not JSON, has no activities array, or no entry qualifies) the
\* answer is 400, storeActivities is not called and the catalog and the
\* asset files are as before.
C35_PostStoresTheQualifying ==
    [][res'.op = "post" /\ res'.userId # NULL =>
         LET qualifying == Qualifying(res'.body) IN
         IF Len(qualifying) > 0
         THEN /\ res'.called
              /\ res'.passed = [i \in 1..Len(qualifying) |-> Sanitize(qualifying[i])]
         ELSE /\ res'.status = 400
              /\ ~res'.called
              /\ meta' = meta
              /\ assets' = assets]_vars

\* The two indexes the dashboard derives from its activities.
cellIndex == buildCellIndex(dashboard.activities, dashboard.gridSize, TRUE)
visibleCellIndex == buildCellIndex(dashboard.activities, dashboard.gridSize, FALSE)

\* The sum of the counts of a cell's sports.
RECURSIVE SumCounts(_, _)
SumCounts(sports, names) ==
    IF names = {} THEN 0
    ELSE LET name == CHOOSE n \in names : TRUE
         IN sports[name] + SumCounts(sports, names \ {name})

\* Every cell of an index lists no id twice and counts as many activities
\* by sport as it lists ids.
WellCounted(cells) ==
    \A cellId \in DOMAIN cells :
       /\ NoRepeat(cells[cellId].activityIds)
       /\ SumCounts(cells[cellId].sports, DOMAIN cells[cellId].sports)
             = Len(cells[cellId].activityIds)

\* The cells the points of an activity fall in.
CellsOf(activity, gridSize) ==
    {getCellId(activity.points[i][1], activity.points[i][2], gridSize) :
        i \in 1..Len(activity.points)}

\* The index entry of a cell, or that there is none.
EntryOf(cells, cellId) ==
    IF cellId \in DOMAIN cells THEN <<cells[cellId]>> ELSE <<>>

IndexInvariant(d) ==
    LET all == buildCellIndex(d.activities, d.gridSize, TRUE)
        visible == buildCellIndex(d.activities, d.gridSize, FALSE)
    IN /\ WellCounted(all)
       /\ WellCounted(visible)
       /\ DOMAIN visible \subseteq DOMAIN all
       /\ \A cellId \in DOMAIN visible :
             \A i \in 1..Len(visible[cellId].activityIds) :
                \E k \in 1..Len(d.activities) :
                   /\ d.activities[k].id = visible[cellId].activityIds[i]
                   /\ d.activities[k].visible

ArmedByLog(log, id) ==
    \E i \in 1..Len(log) :
       /\ log[i] = [event |-> "click", id |-> id]
       /\ \A j \in (i + 1)..Len(log) :
             /\ ~(log[j].event = "click" /\ log[j].id # id)
             /\ log[j] # [event |-> "timer", id |-> id]

\* The last event of the log of a step that added one.
Happened(event) ==
    /\ Len(dashboard'.log) = Len(dashboard.log) + 1
    /\ dashboard'.log[Len(dashboard'.log)].event \in event

\* C37: a DELETE request is sent only by a click on the button of the
\* activity that is the pending delete, after an earlier click on it that
\* no click on another activity's button and no firing of its timer
\* followed; while a request is in flight it is the only one, deleting is
\* its activity and a click on another activity's button changes nothing;
\* and when a request finishes neither a deleting nor a pending activity
\* is left.
C37_DeleteNeedsConfirmation ==
    /\ [][dashboard'.inFlight # dashboard.inFlight /\ ~Happened({"deleted", "failed"}) =>
            \E id \in dashboard.activities :
               /\ dashboard'.inFlight = Append(dashboard.inFlight, id)
               /\ Happened({"click"})
               /\ dashboard'.log[Len(dashboard'.log)].id = id
               /\ dashboard.pendingDeleteId = id
               /\ ArmedByLog(dashboard.log, id)]_vars
    /\ [][dashboard.inFlight # <<>> =>
            /\ dashboard.inFlight = <<dashboard.deletingActivityId>>
            /\ Happened({"click"}) =>
                  dashboard' = [dashboard EXCEPT !.log = dashboard'.log]]_vars
    /\ [][Happened({"deleted", "failed"}) =>
            /\ dashboard'.deletingActivityId = NULL
            /\ dashboard'.pendingDeleteId = NULL
            /\ dashboard'.inFlight = <<>>]_vars

\* A delete was confirmed, clicks on the other activity were ignored while
\* it ran, its timer fired meanwhile, and the request failed.
C37_Witness ==
    /\ Len(dashboard.log) = 6
    /\ dashboard.log[1] = [event |-> "click", id |-> "y"]
    /\ dashboard.log[2] = [event |-> "click", id |-> "x"]
    /\ dashboard.log[3] = [event |-> "click", id |-> "x"]
    /\ dashboard.log[4] = [event |-> "click", id |-> "y"]
    /\ dashboard.log[5] = [event |-> "timer", id |-> "x"]
    /\ dashboard.log[6] = [event |-> "failed", id |-> "x"]
    /\ dashboard.activities = ListedIds
    /\ dashboard.pendingDeleteId = NULL

\* C38: decodePolyline and decodePoints give the same points, in the same
\* unit, for every string; and the points the sync engine decodes from a
\* provider polyline are the points the catalog returns after encoding and
\* decoding them.
C38_DecodersAgree ==
    /\ POLYLINE_SCALE = POINT_SCALE
    /\ decodePolyline(track.polyline) = decodePoints(track.polyline)
    /\ track.step # "fetched" =>
          track.points = [i \in 1..Len(decodePoints(track.polyline)) |->
                            <<AsCoord(decodePoints(track.polyline)[i][1]),
                              AsCoord(decodePoints(track.polyline)[i][2])>>]
    /\ track.step = "decoded" => track.decoded = decodePolyline(track.polyline)

\* A polyline whose first group runs over eight characters came back from
\* the catalog as the same point, stored in a string of two characters.
C38_Witness ==
    /\ track.step = "decoded"
    /\ Len(track.polyline) = 9
    /\ track.decoded = << <<Num(4), Num(1)>> >>
    /\ track.encoded = <<71, 65>>
====
